---- MODULE Spec2Model ----
(***************************************************************************)
(* Model of the shopping agent (src/agent): the cart fingerprint, the      *)
(* deterministic and the LLM-assisted validator, cart extraction, the      *)
(* per-item catalog matching with its add-to-cart clicks, and a whole run  *)
(* of run_agent from the API key check to the payment steps.               *)
(*                                                                         *)
(* Conventions.  Text that the code inspects character by character (the   *)
(* merchant origin, blocklist entries, validation flags) is a sequence of  *)
(* one-character strings.  An Optional[T] field is a sequence of length at *)
(* most one: <<>> is None, <<x>> is x.  Text the code only passes along    *)
(* (titles, ids, LLM-supplied flags) is a string.  A decoded JSON value is *)
(* a tagged                                                                *)
(* record: [t |-> "null"], [t |-> "bool", b |-> ..], [t |-> "int",         *)
(* i |-> ..], [t |-> "str", s |-> ..], [t |-> "list", l |-> <<..>>],       *)
(* [t |-> "dict", d |-> function from the present keys to JSON values].    *)
(***************************************************************************)
EXTENDS Integers, Sequences, FiniteSets, TLC

VARIABLES pc, plan, cart, cart2, llm, result, flags,
          lines, products, n_buttons, item_i, last,
          args, events, payment_method, validation, output, intent,
          files, emitted, browser, elapsed

shopVars == <<lines, products, n_buttons, item_i, last>>

\* run_agent's arguments and locals, the calls it has made so far, what it
\* has written to files, log and console, the browser and the polling clock
runVars == <<args, events, payment_method, validation, output, intent,
             files, emitted, browser, elapsed>>

vars == <<pc, plan, cart, cart2, llm, result, flags, shopVars, runVars>>

\* ------------------------------------------------------------------ bounds
MaxCartItems == 2
MaxPlanItems == 2
MaxCatalog == 2
MaxButtons == 2

\* ----------------------------------------------------------- basic values
None == <<>>
Some(x) == <<x>>
Idle == <<>>

\* the shopping variables of a specification that does no shopping
NoShop ==
  /\ lines = <<>>
  /\ products = Idle
  /\ n_buttons = 0
  /\ item_i = 0
  /\ last = Idle

\* the run variables of a specification that is not a run of run_agent
NoRun ==
  /\ args = Idle
  /\ events = <<>>
  /\ payment_method = None
  /\ validation = Idle
  /\ output = Idle
  /\ intent = Idle
  /\ files = Idle
  /\ emitted = {}
  /\ browser = "none"
  /\ elapsed = 0

Range(s) == {s[i] : i \in 1..Len(s)}

SeqsUpTo(S, n) == UNION {[1..k -> S] : k \in 0..n}

\* text constants, one character per element
HTTPS == <<"h","t","t","p","s",":","/","/">>
HTTP == <<"h","t","t","p",":","/","/">>
DomB == <<"b",".","c","o">>
DomOk == <<"o","k",".","i","o">>

\* ------------------------------------------------------------ types.py
\* CartItem: the fields the model distinguishes
CartItem(title, price, qty, planItemId) ==
  [title |-> title, price_cents |-> price, quantity |-> qty,
   plan_item_id |-> planItemId]

CartTotals(subtotal, tax, shipping, total, currency) ==
  [subtotal_cents |-> subtotal, tax_cents |-> tax, shipping_cents |-> shipping,
   total_cents |-> total, currency |-> currency]

\* CartJson constructed with a payment method attached
CartJson_with_payment_method(cartId, planId, origin, items, totals, createdAt, expiresAt) ==
  [cart_id |-> cartId, plan_id |-> planId, merchant_origin |-> origin,
   items |-> items, totals |-> totals, cart_fingerprint_sha256 |-> <<>>,
   created_at |-> createdAt, expires_at |-> expiresAt,
   payment_method |-> Some([pan |-> "4111111111111111"]),
   payment_result |-> None]

\* CartJson as constructed: fingerprint "" (the empty text), payment_method
\* and payment_result None
CartJson(cartId, planId, origin, items, totals, createdAt, expiresAt) ==
  [cart_id |-> cartId, plan_id |-> planId, merchant_origin |-> origin,
   items |-> items, totals |-> totals, cart_fingerprint_sha256 |-> <<>>,
   created_at |-> createdAt, expires_at |-> expiresAt,
   payment_method |-> None, payment_result |-> None]

\* json.dumps(..., sort_keys=True): the keys of every mapping in sorted order
dumps_item(item) ==
  << <<"price_cents", item.price_cents>>,
     <<"quantity", item.quantity>>,
     <<"title", item.title>> >>

\* a canonical content without the total
canonical_without_total(c) ==
  << <<"items", [i \in 1..Len(c.items) |-> dumps_item(c.items[i])]>>,
     <<"merchant_origin", c.merchant_origin>> >>

canonical(c) ==
  << <<"items", [i \in 1..Len(c.items) |-> dumps_item(c.items[i])]>>,
     <<"merchant_origin", c.merchant_origin>>,
     <<"total_cents", c.totals.total_cents>> >>

\* the digest of a text, collision-free and never the empty text
sha256(text) == <<"sha256", text>>

canonical_with_currency(c) ==
  << <<"currency", c.totals.currency>>,
     <<"items", [i \in 1..Len(c.items) |-> dumps_item(c.items[i])]>>,
     <<"merchant_origin", c.merchant_origin>>,
     <<"total_cents", c.totals.total_cents>> >>

compute_fingerprint_currency(c) == sha256(canonical_with_currency(c))

compute_fingerprint(c) == sha256(canonical(c))

\* ------------------------------------------------- fingerprint inputs
\* items that agree in the hashed fields, that differ in the price alone, and
\* that differ in title, price and quantity
FpItems ==
  { CartItem("Mouse", 2000, 1, None), CartItem("Mouse", 2000, 1, Some("p1")),
    CartItem("Mouse", 2500, 1, None), CartItem("Hub", 3500, 2, None) }

\* the fields outside the fingerprint, varied together and one at a time
FpExtras ==
  { [cart_id |-> "c1", created_at |-> 1, expires_at |-> 61, currency |-> "USD",
     tax |-> None, shipping |-> None, subtotal |-> 0],
    [cart_id |-> "c2", created_at |-> 2, expires_at |-> 62, currency |-> "EUR",
     tax |-> Some(100), shipping |-> Some(500), subtotal |-> 2000],
    [cart_id |-> "c1", created_at |-> 1, expires_at |-> 61, currency |-> "GBP",
     tax |-> None, shipping |-> None, subtotal |-> 0] }

FpOrigins == { HTTPS \o DomB, HTTPS \o DomOk }
FpTotals == { 2000, 5500 }

FpCarts ==
  { CartJson(e.cart_id, "plan", o, items,
             CartTotals(e.subtotal, e.tax, e.shipping, t, e.currency),
             e.created_at, e.expires_at) :
      e \in FpExtras, o \in FpOrigins, t \in FpTotals,
      items \in SeqsUpTo(FpItems, MaxCartItems) }

InitFp ==
  /\ pc = "fp"
  /\ plan = Idle
  /\ cart \in FpCarts
  /\ cart2 \in FpCarts
  /\ llm = Idle
  /\ result = Idle
  /\ flags = Idle
  /\ NoShop
  /\ NoRun

\* cart.compute_fingerprint() on the first or the second cart under comparison
ComputeFingerprint(which) ==
  /\ pc = "fp"
  /\ IF which = 1
       THEN /\ cart.cart_fingerprint_sha256 = <<>>
            /\ cart' = [cart EXCEPT !.cart_fingerprint_sha256 = compute_fingerprint(cart)]
            /\ UNCHANGED cart2
       ELSE /\ cart2.cart_fingerprint_sha256 = <<>>
            /\ cart2' = [cart2 EXCEPT !.cart_fingerprint_sha256 = compute_fingerprint(cart2)]
            /\ UNCHANGED cart
  /\ UNCHANGED <<pc, plan, llm, result, flags, shopVars, runVars>>

NextFp == \E which \in {1, 2} : ComputeFingerprint(which)

SpecFp == InitFp /\ [][NextFp]_vars

\* the (title, price_cents, quantity) tuples of a cart, in order
FpTuples(c) ==
  [i \in 1..Len(c.items) |->
     <<c.items[i].title, c.items[i].price_cents, c.items[i].quantity>>]

SameFingerprintInputs(a, b) ==
  /\ a.merchant_origin = b.merchant_origin
  /\ FpTuples(a) = FpTuples(b)
  /\ a.totals.total_cents = b.totals.total_cents

BothFingerprinted ==
  /\ pc = "fp"
  /\ cart.cart_fingerprint_sha256 # <<>>
  /\ cart2.cart_fingerprint_sha256 # <<>>

\* C1: two carts with the same merchant_origin, the same ordered
\* (title, price_cents, quantity) tuples and the same total_cents get the same
\* fingerprint, whatever their cart_id, timestamps, currency, tax, shipping or
\* other item attributes are.
C1_FingerprintDeterminism ==
  (BothFingerprinted /\ SameFingerprintInputs(cart, cart2))
    => cart.cart_fingerprint_sha256 = cart2.cart_fingerprint_sha256

\* two fingerprinted carts that agree on the hashed fields and differ in the
\* excluded ones, with two items each
C1_Witness ==
  /\ BothFingerprinted
  /\ SameFingerprintInputs(cart, cart2)
  /\ Len(cart.items) = 2
  /\ cart.cart_id # cart2.cart_id
  /\ cart.created_at # cart2.created_at
  /\ cart.totals.currency # cart2.totals.currency
  /\ cart.totals.tax_cents # cart2.totals.tax_cents
  /\ cart.items[1].plan_item_id # cart2.items[1].plan_item_id
  /\ cart.cart_fingerprint_sha256 = cart2.cart_fingerprint_sha256

\* ------------------------------------------------------------- text helpers
StartsWith(s, pre) ==
  /\ Len(s) >= Len(pre)
  /\ SubSeq(s, 1, Len(pre)) = pre

\* Python's `sub in s` for texts
Contains(s, sub) ==
  \E k \in 0..(Len(s) - Len(sub)) : SubSeq(s, k + 1, k + Len(sub)) = sub

\* Python's s.replace(old, ""): every non-overlapping occurrence of old,
\* found left to right, is removed
RECURSIVE Remove(_, _)
Remove(s, old) ==
  IF Len(s) < Len(old) THEN s
  ELSE IF StartsWith(s, old) THEN Remove(SubSeq(s, Len(old) + 1, Len(s)), old)
  ELSE <<s[1]>> \o Remove(Tail(s), old)

DigitChar(d) == CASE d = 0 -> "0" [] d = 1 -> "1" [] d = 2 -> "2" [] d = 3 -> "3"
                  [] d = 4 -> "4" [] d = 5 -> "5" [] d = 6 -> "6" [] d = 7 -> "7"
                  [] d = 8 -> "8" [] d = 9 -> "9"

\* the decimal digits of a natural number
RECURSIVE Digits(_)
Digits(n) == IF n < 10 THEN <<DigitChar(n)>> ELSE Digits(n \div 10) \o <<DigitChar(n % 10)>>

Abs(x) == IF x < 0 THEN -x ELSE x

\* the integer nearest to n/d for n >= 0, d > 0, ties to the even neighbour
RoundHalfEven(n, d) ==
  LET q == n \div d
      r == n % d
  IN IF 2 * r > d \/ (2 * r = d /\ q % 2 = 1) THEN q + 1 ELSE q

\* f"{x:.0f}" for x = (over / max_budget) * 100 with over > 0, max_budget # 0.
\* The magnitude is rounded half-to-even and the sign of x is kept, so a
\* negative x that rounds to zero prints as "-0".  The quotient is a double in
\* the code; on the budgets and totals enumerated below the double equals the
\* exact quotient closely enough to round the same way.
format_0f(over, max_budget) ==
  (IF max_budget < 0 THEN <<"-">> ELSE <<>>)
    \o Digits(RoundHalfEven(over * 100, Abs(max_budget)))

OVER_BUDGET_BY == <<"o","v","e","r","_","b","u","d","g","e","t","_","b","y","_">>
PERCENT == <<"_","p","e","r","c","e","n","t">>
ITEM_MISSING == <<"i","t","e","m","_","m","i","s","s","i","n","g">>
UNEXPECTED_ITEM == <<"u","n","e","x","p","e","c","t","e","d","_","i","t","e","m">>
MERCHANT_BLOCKED == <<"m","e","r","c","h","a","n","t","_","b","l","o","c","k","e","d">>
OVER_BUDGET_BY_50_PERCENT == OVER_BUDGET_BY \o <<"5","0">> \o PERCENT

\* ------------------------------------------------------------ plan model
ShoppingItem(id, description, quantity) ==
  [id |-> id, description |-> description, quantity |-> quantity]

Budget(maxTotal) == [max_total_cents |-> maxTotal]

ShoppingPlan(planId, items, budget, blocklist) ==
  [plan_id |-> planId, items |-> items, budget |-> budget,
   merchants |-> [blocklist |-> blocklist]]

DEFAULT_MAX_TOTAL_CENTS == 100000

\* a budget of 0 taken as not set
effective_max_total_cents_or_default(budget) ==
  IF budget.max_total_cents # None /\ budget.max_total_cents[1] # 0
    THEN budget.max_total_cents[1]
  ELSE DEFAULT_MAX_TOTAL_CENTS

effective_max_total_cents(budget) ==
  IF budget.max_total_cents # None THEN budget.max_total_cents[1]
  ELSE DEFAULT_MAX_TOTAL_CENTS

\* ---------------------------------------------------------- validator.py
ValidationResult(decision, fl) ==
  [status |-> "returned", decision |-> decision, flags |-> fl]

Raised(exc) == [status |-> exc, decision |-> "", flags |-> <<>>]

critical_flags_with_unexpected ==
  <<OVER_BUDGET_BY_50_PERCENT, ITEM_MISSING, UNEXPECTED_ITEM>>

critical_flags == <<OVER_BUDGET_BY_50_PERCENT, ITEM_MISSING>>

has_critical(fl) ==
  \E i \in 1..Len(fl) : \E j \in 1..Len(critical_flags) :
     Contains(fl[i], critical_flags[j])

\* quick_validate lines 128-138: the budget check.  Yields the flags so far,
\* or the exception the division raises.
budget_flags_ge(p, c) ==
  LET max_budget == effective_max_total_cents(p.budget)
      total == c.totals.total_cents
  IN IF total >= max_budget
       THEN IF max_budget = 0 THEN Raised("ZeroDivisionError")
            ELSE [status |-> "ok", flags |->
                    << OVER_BUDGET_BY \o format_0f(total - max_budget, max_budget)
                         \o PERCENT >>]
       ELSE [status |-> "ok", flags |-> <<>>]

budget_flags(p, c) ==
  LET max_budget == effective_max_total_cents(p.budget)
      total == c.totals.total_cents
  IN IF total > max_budget
       THEN IF max_budget = 0 THEN Raised("ZeroDivisionError")
            ELSE [status |-> "ok", flags |->
                    << OVER_BUDGET_BY \o format_0f(total - max_budget, max_budget)
                         \o PERCENT >>]
       ELSE [status |-> "ok", flags |-> <<>>]

\* quick_validate lines 140-145: the item-count check
count_flags(p, c) ==
  IF Len(c.items) # Len(p.items)
    THEN IF Len(c.items) < Len(p.items) THEN <<ITEM_MISSING>> ELSE <<UNEXPECTED_ITEM>>
    ELSE <<>>

\* quick_validate line 148
merchant_domain(c) == Remove(Remove(c.merchant_origin, HTTPS), HTTP)

\* the local `flags` when the blocklist check is reached (<<>> when the
\* budget check raised before any flag was appended)
accumulated_flags(p, c) ==
  LET b == budget_flags(p, c)
  IN IF b.status # "ok" THEN <<>> ELSE b.flags \o count_flags(p, c)

quick_validate(p, c) ==
  LET b == budget_flags(p, c)
      fl == accumulated_flags(p, c)
  IN IF b.status # "ok" THEN b
     ELSE IF \E i \in 1..Len(p.merchants.blocklist) :
                p.merchants.blocklist[i] = merchant_domain(c)
       THEN ValidationResult("REJECT", <<MERCHANT_BLOCKED>>)
     ELSE IF fl = <<>> THEN ValidationResult("ALLOW", <<>>)
     ELSE IF has_critical(fl) THEN ValidationResult("REJECT", fl)
     ELSE ValidationResult("ALLOW_WITH_FLAGS", fl)

\* ------------------------------------------------ quick_validate inputs
QvBudgets == { None, Some(0), Some(-200), Some(200), Some(5000), Some(10000) }
QvTotals == { -199, 0, 100, 200, 201, 203, 205, 300, 5000, 5500, 15000,
              100000, 150000 }
QvOrigins == { HTTPS \o DomB, HTTP \o DomB, DomB, HTTPS \o DomOk }
QvBlocklists == { <<>>, <<DomB>>, <<DomOk, DomB>> }
QvPlanItem == ShoppingItem("p1", "mouse", 1)
QvCartItem == CartItem("Mouse", 2000, 1, None)

QvPlans ==
  { ShoppingPlan("plan", [i \in 1..n |-> QvPlanItem], Budget(b), bl) :
      n \in 0..MaxPlanItems, b \in QvBudgets, bl \in QvBlocklists }

QvCarts ==
  { CartJson("c1", "plan", o, [i \in 1..n |-> QvCartItem],
             CartTotals(t, None, None, t, "USD"), 1, 61) :
      n \in 0..MaxCartItems, o \in QvOrigins, t \in QvTotals }

InitQv ==
  /\ pc = "qv"
  /\ plan \in QvPlans
  /\ cart \in QvCarts
  /\ cart2 = Idle
  /\ llm = Idle
  /\ result = Idle
  /\ flags = Idle
  /\ NoShop
  /\ NoRun

\* one call of quick_validate(plan, cart)
QuickValidate ==
  /\ pc = "qv"
  /\ pc' = "qv_done"
  /\ result' = quick_validate(plan, cart)
  /\ flags' = accumulated_flags(plan, cart)
  /\ UNCHANGED <<plan, cart, cart2, llm, shopVars, runVars>>

NextQv == QuickValidate

SpecQv == InitQv /\ [][NextQv]_vars

\* the origin without a leading https:// or http://
StripScheme(origin) ==
  IF StartsWith(origin, HTTPS) THEN SubSeq(origin, Len(HTTPS) + 1, Len(origin))
  ELSE IF StartsWith(origin, HTTP) THEN SubSeq(origin, Len(HTTP) + 1, Len(origin))
  ELSE origin

MerchantBlocked == StripScheme(cart.merchant_origin) \in Range(plan.merchants.blocklist)

QvTotal == cart.totals.total_cents
QvMax == effective_max_total_cents(plan.budget)

\* C2: a cart whose merchant, scheme stripped, is in the blocklist is always
\* answered REJECT with flags exactly [merchant_blocked].
C2_BlocklistShortCircuit ==
  (pc = "qv_done" /\ MerchantBlocked)
    => /\ result.status = "returned"
       /\ result.decision = "REJECT"
       /\ result.flags = <<MERCHANT_BLOCKED>>

IsOver50OrMissing(f) == Contains(f, OVER_BUDGET_BY_50_PERCENT) \/ f = ITEM_MISSING

\* C3: with a merchant that is not blocked and at least one accumulated flag,
\* the decision is REJECT exactly when a flag contains
\* over_budget_by_50_percent or is item_missing, and ALLOW_WITH_FLAGS with the
\* accumulated flags otherwise; budget 5000, two plan items, two cart items and
\* total 5500 give ALLOW_WITH_FLAGS with over_budget_by_10_percent.
C3_CriticalFlagsDecide ==
  /\ (pc = "qv_done" /\ ~MerchantBlocked /\ flags # <<>>)
       => /\ result.status = "returned"
          /\ result.decision = "REJECT" <=> (\E i \in 1..Len(flags) : IsOver50OrMissing(flags[i]))
          /\ result.decision # "REJECT"
               => (result.decision = "ALLOW_WITH_FLAGS" /\ result.flags = flags)
  /\ (/\ pc = "qv_done" /\ ~MerchantBlocked
      /\ plan.budget.max_total_cents = Some(5000) /\ QvTotal = 5500
      /\ Len(plan.items) = 2 /\ Len(cart.items) = 2)
       => /\ result.status = "returned"
          /\ result.decision = "ALLOW_WITH_FLAGS"
          /\ result.flags = << OVER_BUDGET_BY \o <<"1","0">> \o PERCENT >>

\* the 5000/5500 scenario: one accumulated flag, not critical
C3_Witness ==
  /\ pc = "qv_done" /\ ~MerchantBlocked
  /\ plan.budget.max_total_cents = Some(5000) /\ QvTotal = 5500
  /\ Len(plan.items) = 2 /\ Len(cart.items) = 2
  /\ result.decision = "ALLOW_WITH_FLAGS"
  /\ Len(flags) = 1

\* C4: total within the effective budget, equal item counts and a merchant that
\* is not blocked give ALLOW with no flags.
C4_CleanAllow ==
  (/\ pc = "qv_done"
   /\ QvTotal <= QvMax
   /\ Len(cart.items) = Len(plan.items)
   /\ ~MerchantBlocked)
    => /\ result.status = "returned"
       /\ result.decision = "ALLOW"
       /\ result.flags = <<>>

\* a cart whose total equals the budget exactly, with two items on each side
C4_Witness ==
  /\ pc = "qv_done"
  /\ QvTotal = QvMax
  /\ Len(cart.items) = 2 /\ Len(plan.items) = 2
  /\ ~MerchantBlocked
  /\ result.decision = "ALLOW"

\* str(p) for an integer p
IntText(p) == IF p < 0 THEN <<"-">> \o Digits(-p) ELSE Digits(p)

\* p is round(x) for x = over / max_budget * 100: the nearest integer, the even
\* one of two equally near
IsRounded(p, over, max_budget) ==
  /\ 2 * Abs(over * 100 - p * max_budget) <= Abs(max_budget)
  /\ 2 * Abs(over * 100 - p * max_budget) = Abs(max_budget) => p % 2 = 0

\* the integers next to over * 100 / max_budget, of either sign
RoundCandidates(over, max_budget) ==
  LET q == (over * 100) \div Abs(max_budget)
  IN {q - 1, q, q + 1, 1 - q, -q, -(q + 1)}

IsOverBudgetFlag(f) == StartsWith(f, OVER_BUDGET_BY)

\* C5: with a merchant that is not blocked, total > effective_max yields
\* exactly one over-budget flag, over_budget_by_<p>_percent with
\* p = round((total - effective_max) / effective_max * 100), and
\* total <= effective_max yields no over-budget flag.
C5_OverBudgetFlag ==
  (pc = "qv_done" /\ ~MerchantBlocked)
    => /\ result.status = "returned"
       /\ IF QvTotal > QvMax
            THEN /\ Cardinality({i \in 1..Len(result.flags) : IsOverBudgetFlag(result.flags[i])}) = 1
                 /\ \E p \in RoundCandidates(QvTotal - QvMax, QvMax) :
                      /\ IsRounded(p, QvTotal - QvMax, QvMax)
                      /\ OVER_BUDGET_BY \o IntText(p) \o PERCENT \in Range(result.flags)
            ELSE \A i \in 1..Len(result.flags) : ~IsOverBudgetFlag(result.flags[i])

\* ------------------------------------------------------ decoded JSON values
JNull == [t |-> "null"]
JBool(b) == [t |-> "bool", b |-> b]
JInt(i) == [t |-> "int", i |-> i]
JStr(s) == [t |-> "str", s |-> s]
JList(l) == [t |-> "list", l |-> l]
JDict(d) == [t |-> "dict", d |-> d]

EmptyDict == JDict(<<>>)

\* dict.get(key, default)
Get(dict, key, default) == IF key \in DOMAIN dict.d THEN dict.d[key] ELSE default

\* Python truthiness of a decoded JSON value
Truthy(v) ==
  CASE v.t = "null" -> FALSE
    [] v.t = "bool" -> v.b
    [] v.t = "int" -> v.i # 0
    [] v.t = "str" -> v.s # ""
    [] v.t = "list" -> v.l # <<>>
    [] v.t = "dict" -> DOMAIN v.d # {}

\* `v or default`
Or(v, default) == IF Truthy(v) THEN v ELSE default

\* a mapping with the keys whose value is given; Absent marks a missing key
Absent == [t |-> "absent"]
DictOf(keys, val) == JDict([k \in {x \in keys : val[x] # Absent} |-> val[k]])

\* ------------------------------------- validator.py: _parse_validation_result
VALID_DECISIONS == {"ALLOW", "ALLOW_WITH_FLAGS", "REJECT"}

IsValidDecision(v) == v.t = "str" /\ v.s \in VALID_DECISIONS

\* pydantic: flags: list[str]
IsStrList(v) == v.t = "list" /\ \A i \in 1..Len(v.l) : v.l[i].t = "str"

\* pydantic: reasoning: str | None
IsOptStr(v) == v.t \in {"null", "str"}

parse_validation_result(response) ==
  LET res == IF response.t # "dict" THEN EmptyDict ELSE response
      got == Get(res, "decision", JStr("ALLOW_WITH_FLAGS"))
      decision == IF IsValidDecision(got) THEN got.s ELSE "ALLOW_WITH_FLAGS"
      fl == Get(res, "flags", JList(<<>>))
      reasoning == Get(res, "reasoning", JNull)
  IN IF ~IsStrList(fl) \/ ~IsOptStr(reasoning)
       THEN Raised("ValidationError")
       ELSE ValidationResult(decision, [i \in 1..Len(fl.l) |-> fl.l[i].s])

\* ------------------------------------- _parse_validation_result inputs
PvDecisions == { Absent, JStr("ALLOW"), JStr("ALLOW_WITH_FLAGS"), JStr("REJECT"),
                 JStr("MAYBE"), JNull, JInt(1) }
PvFlags == { Absent, JNull, JList(<<>>), JList(<<JStr("item_missing")>>),
             JStr("item_missing") }
PvReasonings == { Absent, JNull, JStr("ok") }

PvResponses ==
  { JNull, JStr("ALLOW"), JInt(1), JBool(TRUE), JList(<<JStr("ALLOW")>>) }
  \cup { DictOf({"decision", "flags", "reasoning"},
                [decision |-> d, flags |-> f, reasoning |-> r]) :
           d \in PvDecisions, f \in PvFlags, r \in PvReasonings }

InitPv ==
  /\ pc = "pv"
  /\ plan = Idle
  /\ cart = Idle
  /\ cart2 = Idle
  /\ llm \in PvResponses
  /\ result = Idle
  /\ flags = Idle
  /\ NoShop
  /\ NoRun

\* one call of _parse_validation_result(llm)
ParseValidationResult ==
  /\ pc = "pv"
  /\ pc' = "pv_done"
  /\ result' = parse_validation_result(llm)
  /\ UNCHANGED <<plan, cart, cart2, llm, flags, shopVars, runVars>>

NextPv == ParseValidationResult

SpecPv == InitPv /\ [][NextPv]_vars

PvHas(key) == llm.t = "dict" /\ key \in DOMAIN llm.d

\* C7: the normalization maps a response that is not a mapping to
\* ALLOW_WITH_FLAGS with no flags, maps a missing decision or one outside the
\* three valid values to ALLOW_WITH_FLAGS, uses no flags when flags is
\* missing, and passes a valid decision through unchanged.
C7_ValidationNormalized ==
  pc = "pv_done" =>
    /\ llm.t # "dict"
         => /\ result.status = "returned"
            /\ result.decision = "ALLOW_WITH_FLAGS"
            /\ result.flags = <<>>
    /\ (llm.t = "dict" /\ (~PvHas("decision") \/ ~IsValidDecision(llm.d["decision"])))
         => /\ result.status = "returned"
            /\ result.decision = "ALLOW_WITH_FLAGS"
    /\ (llm.t = "dict" /\ ~PvHas("flags"))
         => /\ result.status = "returned"
            /\ result.flags = <<>>
    /\ (PvHas("decision") /\ IsValidDecision(llm.d["decision"]))
         => /\ result.status = "returned"
            /\ result.decision = llm.d["decision"].s

\* ------------------------------------------- shopper.py: cart extraction
\* _normalize_cart_data
normalize_cart_data(cart_data) ==
  IF cart_data.t = "list" THEN JDict([items |-> cart_data])
  ELSE IF cart_data.t = "null" THEN EmptyDict
  ELSE IF cart_data.t # "dict" THEN EmptyDict
  ELSE cart_data

\* pydantic: an int field takes an integer; text that is not a number fails
IsInt(v) == v.t = "int"

\* pydantic: int | None
IsOptInt(v) == v.t \in {"null", "int"}

OptInt(v) == IF v.t = "null" THEN None ELSE Some(v.i)

\* every cart item linked to the first plan item
build_cart_item_first_plan_item(p, item_data, i) ==
  IF item_data.t # "dict" THEN [status |-> "AttributeError"]
  ELSE LET title == Get(item_data, "title", JStr("Unknown Item"))
           price == Or(Get(item_data, "price_cents", JInt(0)), JInt(0))
           quantity == Or(Get(item_data, "quantity", JInt(1)), JInt(1))
           plan_item_id == IF 0 < Len(p.items) THEN Some(p.items[1].id) ELSE None
       IN IF title.t # "str" \/ ~IsInt(price) \/ ~IsInt(quantity)
            THEN [status |-> "ValidationError"]
            ELSE [status |-> "ok",
                  item |-> CartItem(title.s, price.i, quantity.i, plan_item_id)]

\* lines 698-712 for one element of items_data at 0-based position i: the
\* CartItem, or the exception raised while building it
build_cart_item(p, item_data, i) ==
  IF item_data.t # "dict" THEN [status |-> "AttributeError"]
  ELSE LET title == Get(item_data, "title", JStr("Unknown Item"))
           price == Or(Get(item_data, "price_cents", JInt(0)), JInt(0))
           quantity == Or(Get(item_data, "quantity", JInt(1)), JInt(1))
           plan_item_id == IF i < Len(p.items) THEN Some(p.items[i + 1].id) ELSE None
       IN IF title.t # "str" \/ ~IsInt(price) \/ ~IsInt(quantity)
            THEN [status |-> "ValidationError"]
            ELSE [status |-> "ok",
                  item |-> CartItem(title.s, price.i, quantity.i, plan_item_id)]

\* lines 715-720
build_totals(cart_data) ==
  LET subtotal == Or(Get(cart_data, "subtotal_cents", JNull), JInt(0))
      tax == Get(cart_data, "tax_cents", JNull)
      shipping == Get(cart_data, "shipping_cents", JNull)
      total == Or(Get(cart_data, "total_cents", JNull), JInt(0))
  IN IF ~IsInt(subtotal) \/ ~IsOptInt(tax) \/ ~IsOptInt(shipping) \/ ~IsInt(total)
       THEN [status |-> "ValidationError"]
       ELSE [status |-> "ok",
             totals |-> CartTotals(subtotal.i, OptInt(tax), OptInt(shipping),
                                   total.i, "USD")]

\* _extract_cart_state from the decoded LLM response on: the first exception
\* in item order, else the fingerprinted CartJson
extract_cart_state(p, response, base_url) ==
  LET cart_data == normalize_cart_data(response)
      got == Get(cart_data, "items", JList(<<>>))
      items_data == IF got.t # "list" THEN <<>> ELSE got.l
      built == [i \in 1..Len(items_data) |-> build_cart_item(p, items_data[i], i - 1)]
      failed == {i \in 1..Len(built) : built[i].status # "ok"}
      totals == build_totals(cart_data)
  IN IF failed # {}
       THEN [status |-> built[CHOOSE i \in failed : \A j \in failed : i <= j].status]
     ELSE IF totals.status # "ok" THEN [status |-> totals.status]
     ELSE LET c == CartJson("c1", p.plan_id, base_url,
                            [i \in 1..Len(built) |-> built[i].item],
                            totals.totals, 1, 61)
          IN [status |-> "returned",
              cart |-> [c EXCEPT !.cart_fingerprint_sha256 = compute_fingerprint(c)]]

\* ------------------------------------------------- cart extraction inputs
ExPlanItems == <<ShoppingItem("p1", "mouse", 1), ShoppingItem("p2", "hub", 2),
                 ShoppingItem("p3", "pad", 1), ShoppingItem("p4", "cable", 1)>>

ExPlans ==
  { ShoppingPlan("plan", SubSeq(ExPlanItems, 1, n), Budget(Some(5000)), <<>>) :
      n \in 0..MaxPlanItems }

\* elements of an extracted items list: well-formed, partial and malformed
ExElems ==
  { JDict([title |-> JStr("Mouse"), price_cents |-> JInt(2000), quantity |-> JInt(1)]),
    JDict([title |-> JStr("Hub"), price_cents |-> JInt(3500), quantity |-> JInt(2)]),
    JDict([title |-> JStr("Hub")]),
    JDict([price_cents |-> JNull, quantity |-> JInt(0)]),
    JDict([title |-> JNull, price_cents |-> JInt(2000)]),
    JDict([title |-> JStr("Pad"), price_cents |-> JStr("abc")]),
    JDict([title |-> JStr("Pad"), price_cents |-> JInt(-5), quantity |-> JInt(-1)]),
    JStr("Mouse"),
    JNull }

ExLists == { JList(l) : l \in SeqsUpTo(ExElems, MaxCartItems) }
ExItemsFields == { Absent, JNull, JStr("none"), JDict([title |-> JStr("Mouse")]) }
                   \cup { JList(l) : l \in SeqsUpTo(ExElems, 1) }
ExTotalFields == { Absent, JNull, JInt(0), JInt(5500), JInt(-5), JStr("abc") }
ExTaxFields == { Absent, JInt(100), JStr("abc") }

ExResponses ==
  { JNull, JStr("no cart"), JInt(7), JBool(FALSE) }
  \cup ExLists
  \cup { DictOf({"items", "subtotal_cents", "tax_cents", "total_cents"},
                [items |-> it, subtotal_cents |-> st, tax_cents |-> tx,
                 total_cents |-> tt]) :
           it \in ExItemsFields, st \in {Absent, JInt(2000)},
           tx \in ExTaxFields, tt \in ExTotalFields }

InitEx ==
  /\ pc = "ex"
  /\ plan \in ExPlans
  /\ cart = Idle
  /\ cart2 = Idle
  /\ llm \in ExResponses
  /\ result = Idle
  /\ flags = Idle
  /\ NoShop
  /\ NoRun

\* _extract_cart_state once the cart_extraction completion has returned llm
ExtractCartState ==
  /\ pc = "ex"
  /\ pc' = "ex_done"
  /\ LET r == extract_cart_state(plan, llm, HTTPS \o DomB)
     IN /\ result' = [status |-> r.status]
        /\ cart' = IF r.status = "returned" THEN r.cart ELSE cart
  /\ UNCHANGED <<plan, cart2, llm, flags, shopVars, runVars>>

NextEx == ExtractCartState

SpecEx == InitEx /\ [][NextEx]_vars

\* C6: extraction never raises on a response that is not a mapping: null and
\* values that are neither list nor mapping give a cart with no items and
\* subtotal and total 0, a bare list is taken as the items list, and an items
\* field that is not a list is taken as empty.
C6_ExtractionRobust ==
  pc = "ex_done" =>
    /\ llm.t # "dict" => result.status = "returned"
    /\ llm.t \notin {"dict", "list"}
         => /\ cart.items = <<>>
            /\ cart.totals.subtotal_cents = 0
            /\ cart.totals.total_cents = 0
    /\ llm.t = "list" => Len(cart.items) = Len(llm.l)
    /\ (/\ llm.t = "dict" /\ "items" \in DOMAIN llm.d /\ llm.d["items"].t # "list"
        /\ result.status = "returned")
         => cart.items = <<>>

\* --------------------------------- shopper.py: catalog matching and adding
Product(name, description, price, category) ==
  [name |-> name, description |-> description, price |-> price,
   category |-> category]

\* _add_item_to_cart line 217: `result.get("found", False)` as a condition
is_found_default_true(response) == Truthy(Get(response, "found", JBool(TRUE)))

is_found(response) == Truthy(Get(response, "found", JBool(FALSE)))

\* _select_product_match: (product_index, product_name), or the TypeError of
\* comparing 0 with an index that is not a number
select_product_match(response, prods) ==
  LET product_index == Get(response, "product_index", JInt(-1))
      product_name == Get(response, "product_name", JStr(""))
  IN IF product_index.t # "int" THEN [status |-> "TypeError"]
     ELSE [status |-> "ok",
           product_index |-> product_index.i,
           product_name |->
             IF 0 <= product_index.i /\ product_index.i < Len(prods)
               THEN JStr(prods[product_index.i + 1].name)
               ELSE product_name]

\* What the page does to one _click_add_for_product call: s0 says whether the
\* index-based locator, count and click go through or raise; s1 and s2 are the
\* Add control that the name-based and the proximity-based lookup end up
\* clicking, or -1 when that strategy raises or finds nothing.
ClickEnvs(n) == [s0 : {"ok", "raise"}, s1 : -1..(n - 1), s2 : -1..(n - 1)]

NoClick == [by |-> "none", control |-> -1]

\* _click_add_for_product: the click performed, if any
click_add_for_product(product_name, product_index, env, n) ==
  IF product_index >= 0 /\ env.s0 = "ok" /\ product_index < n
    THEN [by |-> "index", control |-> product_index]
  ELSE IF env.s1 # -1 THEN [by |-> "name", control |-> env.s1]
  ELSE IF env.s2 # -1 THEN [by |-> "proximity", control |-> env.s2]
  ELSE NoClick

\* _add_quantity: one _click_add_for_product call per unit, in order
add_quantity(product_name, product_index, quantity, envs, n) ==
  [k \in 1..quantity |->
     [product_name |-> product_name, product_index |-> product_index,
      click |-> click_add_for_product(product_name, product_index, envs[k], n)]]

\* a miss treated as an error of the item
NoMatch_raises == [status |-> "LookupError", product_index |-> -1,
                   product_name |-> JNull, attempts |-> <<>>]

NoMatch == [status |-> "no_match", product_index |-> -1, product_name |-> JNull,
            attempts |-> <<>>]

ItemRaised(exc) == [status |-> exc, product_index |-> -1, product_name |-> JNull,
                    attempts |-> <<>>]

\* _add_item_to_cart for one plan item, given the find_product completion and
\* the page's behaviour on each click call
add_item_to_cart(item, prods, response, envs, n) ==
  IF response.t # "dict" THEN ItemRaised("AttributeError")
  ELSE IF ~is_found(response) THEN NoMatch
  ELSE LET m == select_product_match(response, prods)
       IN IF m.status # "ok" THEN ItemRaised(m.status)
          ELSE [status |-> "added", product_index |-> m.product_index,
                product_name |-> m.product_name,
                attempts |-> add_quantity(m.product_name, m.product_index,
                                          item.quantity, envs, n)]

\* ------------------------------------------------------- shopping inputs
AllProducts == << Product("Mouse", "wireless", "$20.00", "TECH"),
                  Product("Hub", "usb-c", "$35.00", "TECH"),
                  Product("Pad", "soft", "$5.00", "DESK") >>

FindFound == { Absent, JBool(TRUE), JBool(FALSE), JNull }
FindIndex == { Absent, JInt(-1), JInt(0), JInt(1), JInt(2), JInt(3), JStr("1") }
FindName == { Absent, JStr("Wireless Mouse") }

FindResponses ==
  { JNull, JList(<<>>) }
  \cup { DictOf({"found", "product_index", "product_name"},
                [found |-> f, product_index |-> ix, product_name |-> nm]) :
           f \in FindFound, ix \in FindIndex, nm \in FindName }

ShopExResponses ==
  { JNull,
    JList(<<JStr("Mouse")>>),
    JDict([items |-> JList(<<JDict([title |-> JStr("Mouse"),
                                     price_cents |-> JInt(2000),
                                     quantity |-> JInt(1)])>>),
           subtotal_cents |-> JInt(2000), total_cents |-> JInt(2000)]) }

BASE_URL == HTTPS \o DomB

InitShop ==
  /\ pc = "shop"
  /\ plan \in ExPlans
  /\ cart = Idle
  /\ cart2 = Idle
  /\ llm = Idle
  /\ result = Idle
  /\ flags = Idle
  /\ lines = <<>>
  /\ \E n \in 0..MaxCatalog : products = SubSeq(AllProducts, 1, n)
  /\ n_buttons \in 0..MaxButtons
  /\ item_i = 0
  /\ last = Idle
  /\ NoRun

\* the number of _click_add_for_product calls that processing item makes
click_calls(item, prods, response) ==
  LET quiet == [k \in 1..item.quantity |-> [s0 |-> "raise", s1 |-> -1, s2 |-> -1]]
  IN Len(add_item_to_cart(item, prods, response, quiet, 0).attempts)

\* shop() lines 116-117: _add_item_to_cart for the next plan item; the page's
\* behaviour is drawn for every click call that is made
AddItemToCart ==
  /\ pc = "shop"
  /\ item_i < Len(plan.items)
  /\ LET item == plan.items[item_i + 1]
     IN \E response \in FindResponses :
        \E envs \in [1..click_calls(item, products, response) -> ClickEnvs(n_buttons)] :
          LET r == add_item_to_cart(item, products, response, envs, n_buttons)
          IN /\ llm' = response
             /\ last' = r @@ [item |-> item_i + 1]
             /\ item_i' = item_i + 1
             /\ IF r.status \in {"added", "no_match"}
                  THEN UNCHANGED <<pc, result>>
                  ELSE pc' = "raised" /\ result' = [status |-> r.status]
  /\ UNCHANGED <<plan, cart, cart2, flags, lines, products, n_buttons, runVars>>

\* shop() line 120: _extract_cart_state after the last plan item
ShopExtract ==
  /\ pc = "shop"
  /\ item_i = Len(plan.items)
  /\ \E response \in ShopExResponses :
       LET r == extract_cart_state(plan, response, BASE_URL)
       IN /\ llm' = response
          /\ result' = [status |-> r.status]
          /\ IF r.status = "returned"
               THEN cart' = r.cart /\ pc' = "shop_done"
               ELSE cart' = cart /\ pc' = "raised"
  /\ UNCHANGED <<plan, cart2, flags, shopVars, runVars>>

NextShop == AddItemToCart \/ ShopExtract

SpecShop == InitShop /\ [][NextShop]_vars

\* an item was just processed and the find_product response is in llm
ItemProcessed == pc \in {"shop", "raised"} /\ last # Idle /\ llm.t = "dict"

LastItem == plan.items[last.item]

FoundTrue == llm.t = "dict" /\ "found" \in DOMAIN llm.d /\ llm.d["found"] = JBool(TRUE)

FoundFalse == llm.t = "dict" /\ "found" \in DOMAIN llm.d /\ llm.d["found"] = JBool(FALSE)

HasIntIndex == "product_index" \in DOMAIN llm.d /\ llm.d["product_index"].t = "int"

IndexInRange ==
  /\ HasIntIndex
  /\ 0 <= llm.d["product_index"].i
  /\ llm.d["product_index"].i < Len(products)

IndexOutOfRange ==
  /\ HasIntIndex
  /\ (llm.d["product_index"].i < 0 \/ llm.d["product_index"].i >= Len(products))

SuppliedName == Get(llm, "product_name", JStr(""))

ClicksByNameOnly ==
  \A k \in 1..Len(last.attempts) : last.attempts[k].click.by # "index"

\* C8: with found = true the name used for adding is the catalog's own name at
\* product_index exactly when the index is within the catalog; with an index
\* outside it nothing is raised, the LLM-supplied name is kept and the item is
\* added by name only.
C8_IndexGuard ==
  (ItemProcessed /\ FoundTrue /\ HasIntIndex) =>
    /\ IndexInRange
         => /\ last.status = "added"
            /\ last.product_name = JStr(products[llm.d["product_index"].i + 1].name)
    /\ IndexOutOfRange
         => /\ last.status = "added"
            /\ last.product_name = SuppliedName
            /\ ClicksByNameOnly

C10_ExactlyQuantityClicks ==
  (ItemProcessed /\ FoundTrue /\ IndexInRange) =>
    /\ last.status = "added"
    /\ Len(last.attempts) = LastItem.quantity
    /\ \A k \in 1..Len(last.attempts) :
         /\ last.attempts[k].click.by # "none"
         /\ last.attempts[k].click.control = llm.d["product_index"].i

\* ------------------------------------------------ main.py: run_agent, inputs
\* PaymentMethod: the plaintext card fields
PaymentMethod(pan, exp_month, exp_year, cvv, cardholder_name) ==
  [pan |-> pan, exp_month |-> exp_month, exp_year |-> exp_year, cvv |-> cvv,
   cardholder_name |-> cardholder_name]

CardA == PaymentMethod("4111111111111111", "01", "30", "123", "Ann Lee")
CardB == PaymentMethod("5500000000000004", "12", "31", "987", "Bo Diaz")
Cards == {CardA, CardB}

\* the texts that are plaintext credential fields of some card
CardFields ==
  UNION {{c.pan, c.cvv, c.exp_month, c.exp_year, c.cardholder_name} : c \in Cards}

\* run_agent's arguments and environment: whether a Keywords API key is
\* available, whether a PaytatoClient is passed, whether that client found
\* PAYFILL_PRIVATE_KEY in the environment (paytato.py line 38), and the mock
\* payment payload.  Without a client the private key plays no part.
RunArgs ==
  { a \in [api_key : BOOLEAN, paytato : BOOLEAN, private_key : BOOLEAN,
           mock_payload : {None, Some(CardA)}] :
      ~a.paytato => a.private_key }

\* one call made by the run: its name, the plan item it is for (0 when it is
\* for none), whether run_agent's payment_method held a card when it was made,
\* and its success: the metadata success a complete_intent call carried, what
\* a payment step returned or "raised" when it raised, "-" for other calls
Call(name, item, pm, success) ==
  [call |-> name, item |-> item, holds_card |-> pm # None, success |-> success]

\* the four output files, none written yet
NoFiles == [shopping_plan |-> None, cart |-> None, validation |-> None,
            agent_output |-> None]

\* one record written to the log or to the console
Emit(ch, msg, arg) == [ch |-> ch, msg |-> msg, arg |-> arg]

\* a payload that never reaches the disk
save_json_file_nothing(fs, name, payload) == fs

\* save_json_file lines 73-77: the payload is written to its file
save_json_file(fs, name, payload) == [fs EXCEPT ![name] = Some(payload)]

\* the error logged when a response has a status other than 200, by
\* KeywordsClient.complete (keywords.py line 116) and by the PaytatoClient
\* calls (paytato.py lines 83, 170, 200, 227, 360)
Non2xx(who) == Emit("log", who, "status 500")

\* find_product completions of a run: not a mapping, no match, a match inside
\* the catalog, a match with an index outside it, an index given as text
RunFindResponses ==
  { JNull,
    JDict([found |-> JBool(FALSE)]),
    JDict([found |-> JBool(TRUE), product_index |-> JInt(0),
           product_name |-> JStr("Mouse")]),
    JDict([found |-> JBool(TRUE), product_index |-> JInt(7),
           product_name |-> JStr("Wireless Mouse")]),
    JDict([found |-> JBool(TRUE), product_index |-> JStr("1")]) }

\* the page in a run: the index-based click goes through or nothing is clicked
RunClickEnvs ==
  { [s0 |-> "ok", s1 |-> -1, s2 |-> -1], [s0 |-> "raise", s1 |-> -1, s2 |-> -1] }

\* cart_vs_plan_validator completions of a run
RunValidationResponses ==
  { JNull,
    JDict([decision |-> JStr("ALLOW")]),
    JDict([decision |-> JStr("REJECT"), flags |-> JList(<<JStr("item_missing")>>)]),
    JDict([decision |-> JStr("ALLOW"), flags |-> JNull]) }

InitRun ==
  /\ pc = "run_start"
  /\ plan \in ExPlans
  /\ cart = Idle
  /\ cart2 = Idle
  /\ llm = Idle
  /\ result = Idle
  /\ flags = Idle
  /\ lines = <<>>
  /\ products = SubSeq(AllProducts, 1, MaxCatalog)
  /\ n_buttons = MaxButtons
  /\ item_i = 0
  /\ last = Idle
  /\ args \in RunArgs
  /\ events = <<>>
  /\ payment_method = None
  /\ validation = Idle
  /\ output = Idle
  /\ intent = Idle
  /\ files = NoFiles
  /\ emitted = {}
  /\ browser = "none"
  /\ elapsed = 0

\* the run ends with an exception that propagates out of run_agent
Raise(exc) == pc' = "raised" /\ result' = [status |-> exc]

\* run_agent lines 128-140: the API key check and, with a Paytato client,
\* start_run, which raises on a status other than 200
StartRun ==
  /\ pc = "run_start"
  /\ \/ /\ ~args.api_key
        /\ Raise("ValueError")
        /\ UNCHANGED <<events, emitted>>
     \/ /\ args.api_key
        /\ ~args.paytato
        /\ pc' = "run_plan"
        /\ UNCHANGED <<result, events, emitted>>
     \/ /\ args.api_key
        /\ args.paytato
        /\ events' = Append(events, Call("start_run", 0, payment_method, "-"))
        /\ \/ pc' = "run_plan" /\ UNCHANGED <<result, emitted>>
           \/ /\ Raise("HTTPStatusError")
              /\ emitted' = emitted \cup {Non2xx("Paytato start run failed")}
  /\ UNCHANGED <<plan, cart, cart2, llm, flags, shopVars, args, payment_method,
                 validation, output, intent, files, browser, elapsed>>

\* run_agent lines 148-153: the intake completion gives the plan, which is
\* saved as shopping_plan.json; the completion raises on a status other than 200
CreateShoppingPlan ==
  /\ pc = "run_plan"
  /\ events' = Append(events, Call("create_shopping_plan", 0, payment_method, "-"))
  /\ \/ /\ pc' = "run_open"
        /\ files' = save_json_file(files, "shopping_plan", plan)
        /\ UNCHANGED <<result, emitted>>
     \/ /\ Raise("HTTPStatusError")
        /\ emitted' = emitted \cup {Non2xx("Keywords AI error")}
        /\ UNCHANGED files
  /\ UNCHANGED <<plan, cart, cart2, llm, flags, shopVars, args, payment_method,
                 validation, output, intent, browser, elapsed>>

\* shop() lines 85-113: the browser is launched and the catalog read; a
\* failing navigation closes the browser and is raised again (lines 129-132)
ShopOpen ==
  /\ pc = "run_open"
  /\ events' = Append(events, Call("open_store", 0, payment_method, "-"))
  /\ \/ /\ pc' = "run_shop"
        /\ browser' = "open"
        /\ UNCHANGED result
     \/ /\ Raise("PlaywrightError")
        /\ browser' = "closed"
  /\ UNCHANGED <<plan, cart, cart2, llm, flags, shopVars, args, payment_method,
                 validation, output, intent, files, emitted, elapsed>>

\* _add_item_to_cart lines 215-227 as calls: the find_product completion, then
\* either the no-match warning or one _click_add_for_product call per unit
item_events(i, r, pm) ==
  <<Call("find_product", i, pm, "-")>>
  \o (IF r.status = "no_match" THEN <<Call("no_match_warning", i, pm, "-")>>
      ELSE [k \in 1..Len(r.attempts) |-> Call("click_add", i, pm, "-")])

\* _extract_cart_state as calls, with the fingerprint computed before the
\* extraction completion is requested
extract_events_fingerprint_first(r, pm) ==
  (IF r.status = "returned" THEN <<Call("compute_fingerprint", 0, pm, "-")>> ELSE <<>>)
  \o <<Call("cart_extraction", 0, pm, "-")>>

\* _extract_cart_state as calls: the cart_extraction completion (line 681)
\* and, when the CartJson could be built, compute_fingerprint (line 738)
extract_events(r, pm) ==
  <<Call("cart_extraction", 0, pm, "-")>>
  \o (IF r.status = "returned" THEN <<Call("compute_fingerprint", 0, pm, "-")>> ELSE <<>>)

\* shop() lines 116-117 within a run: _add_item_to_cart for the next plan
\* item; an exception closes the browser and leaves run_agent (lines 129-132)
RunAddItemToCart ==
  /\ pc = "run_shop"
  /\ item_i < Len(plan.items)
  /\ item_i' = item_i + 1
  /\ LET item == plan.items[item_i + 1]
     IN \/ \E response \in RunFindResponses :
           \E envs \in [1..click_calls(item, products, response) -> RunClickEnvs] :
             LET r == add_item_to_cart(item, products, response, envs, n_buttons)
             IN /\ llm' = response
                /\ last' = r @@ [item |-> item_i + 1]
                /\ events' = events \o item_events(item_i + 1, r, payment_method)
                /\ UNCHANGED emitted
                /\ IF r.status \in {"added", "no_match"}
                     THEN UNCHANGED <<pc, result, browser>>
                     ELSE Raise(r.status) /\ browser' = "closed"
        \/ /\ llm' = Idle
           /\ last' = ItemRaised("HTTPStatusError") @@ [item |-> item_i + 1]
           /\ events' = Append(events, Call("find_product", item_i + 1,
                                            payment_method, "-"))
           /\ emitted' = emitted \cup {Non2xx("Keywords AI error")}
           /\ Raise("HTTPStatusError")
           /\ browser' = "closed"
  /\ UNCHANGED <<plan, cart, cart2, flags, lines, products, n_buttons, args,
                 payment_method, validation, output, intent, files, elapsed>>

\* shop() lines 120-127 within a run: _extract_cart_state after the last plan
\* item, with the browser kept open for the payment steps
RunExtractCartState ==
  /\ pc = "run_shop"
  /\ item_i = Len(plan.items)
  /\ \/ \E response \in ShopExResponses :
          LET r == extract_cart_state(plan, response, BASE_URL)
          IN /\ llm' = response
             /\ events' = events \o extract_events(r, payment_method)
             /\ UNCHANGED emitted
             /\ IF r.status = "returned"
                  THEN /\ cart' = r.cart
                       /\ pc' = "run_cart"
                       /\ UNCHANGED <<result, browser>>
                  ELSE /\ cart' = cart
                       /\ Raise(r.status)
                       /\ browser' = "closed"
     \/ /\ llm' = Idle
        /\ events' = Append(events, Call("cart_extraction", 0, payment_method, "-"))
        /\ emitted' = emitted \cup {Non2xx("Keywords AI error")}
        /\ cart' = cart
        /\ Raise("HTTPStatusError")
        /\ browser' = "closed"
  /\ UNCHANGED <<plan, cart2, flags, shopVars, args, payment_method,
                 validation, output, intent, files, elapsed>>

\* run_agent lines 169-175: cart.model_dump() is saved as cart.json
SaveCart ==
  /\ pc = "run_cart"
  /\ pc' = "run_validate"
  /\ files' = save_json_file(files, "cart", cart)
  /\ emitted' = emitted \cup {Emit("log", "Saved cart to", "cart.json")}
  /\ UNCHANGED <<plan, cart, cart2, llm, result, flags, shopVars, args, events,
                 payment_method, validation, output, intent, browser, elapsed>>

\* run_agent lines 182-192: validate_cart requests the validator completion
\* and normalizes it; the result is logged and saved as validation.json
ValidateCart ==
  /\ pc = "run_validate"
  /\ events' = Append(events, Call("validate_cart", 0, payment_method, "-"))
  /\ \/ \E response \in RunValidationResponses :
          LET v == parse_validation_result(response)
          IN /\ llm' = response
             /\ IF v.status = "returned"
                  THEN /\ validation' = v
                       /\ pc' = "run_output"
                       /\ files' = save_json_file(files, "validation", v)
                       /\ emitted' = emitted \cup
                            {Emit("log", "Validation decision", v.decision)}
                       /\ UNCHANGED result
                  ELSE /\ Raise(v.status)
                       /\ UNCHANGED <<validation, files, emitted>>
     \/ /\ llm' = Idle
        /\ Raise("HTTPStatusError")
        /\ emitted' = emitted \cup {Non2xx("Keywords AI error")}
        /\ UNCHANGED <<validation, files>>
  /\ UNCHANGED <<plan, cart, cart2, flags, shopVars, args, payment_method,
                 output, intent, browser, elapsed>>

\* build_agent_output with success whatever the decision
build_agent_output_always_success(v) == [success |-> TRUE, error |-> None]

\* build_agent_output with success only for a plain ALLOW
build_agent_output_allow_only(v) ==
  [success |-> v.decision = "ALLOW", error |-> None]

\* build_agent_output lines 80-92; the output's shopping_plan, cart and
\* validation are the objects held in plan, cart and validation
build_agent_output(v) ==
  [success |-> v.decision # "REJECT", error |-> None]

\* AgentOutput.model_dump()
dump_output(o, p, c, v) ==
  [shopping_plan |-> p, cart |-> c, validation |-> v, success |-> o.success,
   error |-> o.error]

\* run_agent lines 195-200: the output is built and saved as agent_output.json
BuildAgentOutput ==
  /\ pc = "run_output"
  /\ pc' = "run_intent"
  /\ output' = build_agent_output(validation)
  /\ files' = save_json_file(files, "agent_output",
                             dump_output(output', plan, cart, validation))
  /\ UNCHANGED <<plan, cart, cart2, llm, result, flags, shopVars, args, events,
                 payment_method, validation, intent, emitted, browser, elapsed>>

\* --------------------------------------- main.py: run_agent, payment steps
\* wait_for_approval's defaults (paytato.py lines 282-283), in seconds
TIMEOUT == 150
POLL_INTERVAL == 5

\* the longest a poll's two requests can take: AsyncClient(timeout=30.0)
HTTP_TIMEOUT == 30

INTENT_ID == "intent_1"

\* submit_intent lines 116-117: no intent_id is passed by run_agent, so one is
\* made of "intent_" and 16 hex digits of a fresh uuid4
GeneratedIntentIds == { <<"intent_", u>> : u \in {"0a", "1b"} }

\* submit_intent lines 119-156: the payload posted to the approval service
intent_payload(p, c, intent_id) ==
  [intent_id |-> intent_id,
   items |-> [i \in 1..Len(c.items) |->
                [name |-> c.items[i].title, qty |-> c.items[i].quantity,
                 unit_price_cents |-> c.items[i].price_cents]],
   total_amount_cents |-> c.totals.total_cents,
   currency |-> c.totals.currency,
   merchant |-> merchant_domain(c),
   constraints |-> IF p.budget.max_total_cents # None /\ p.budget.max_total_cents[1] # 0
                     THEN p.budget.max_total_cents ELSE None]

\* polling begun although the response carries no intentId
after_submit_always_waits(intent_id) == "run_wait"

\* run_agent lines 210-214: a response without intentId ends the run at once
after_submit(intent_id) == IF intent_id = "" THEN "returned" ELSE "run_wait"

\* run_agent lines 203-214 and 282-283: with a Paytato client and a successful
\* output the intent is submitted; a response without intentId is returned at
\* once; otherwise the payment steps are skipped
SubmitIntent ==
  /\ pc = "run_intent"
  /\ \/ /\ ~(args.paytato /\ output.success)
        /\ pc' = "run_close"
        /\ UNCHANGED <<result, events, intent, emitted>>
     \/ /\ args.paytato /\ output.success
        /\ events' = Append(events, Call("submit_intent", 0, payment_method, "-"))
        /\ \/ \E key \in GeneratedIntentIds, id \in {INTENT_ID, ""} :
                /\ intent' = [intent_id |-> id, approval |-> "pending",
                              payload |-> intent_payload(plan, cart, key)]
                /\ pc' = after_submit(id)
                /\ result' = IF pc' = "returned" THEN [status |-> "returned"]
                             ELSE result
                /\ UNCHANGED emitted
           \/ /\ Raise("HTTPStatusError")
              /\ emitted' = emitted \cup {Non2xx("Paytato submit intent failed")}
              /\ UNCHANGED intent
  /\ UNCHANGED <<plan, cart, cart2, llm, flags, shopVars, args, payment_method,
                 validation, output, files, browser, elapsed>>

\* run_agent lines 221-225: the mock payload is used when given, otherwise
\* wait_for_approval is called and starts its clock (paytato.py line 299)
WaitForApproval ==
  /\ pc = "run_wait"
  /\ IF args.mock_payload # None
       THEN /\ payment_method' = args.mock_payload
            /\ intent' = [intent EXCEPT !.approval = "mock"]
            /\ pc' = "run_received"
            /\ UNCHANGED <<events, elapsed>>
       ELSE /\ events' = Append(events, Call("wait_for_approval", 0,
                                             payment_method, "-"))
            /\ elapsed' = 0
            /\ pc' = "run_poll"
            /\ UNCHANGED <<payment_method, intent>>
  /\ UNCHANGED <<plan, cart, cart2, llm, result, flags, shopVars, args,
                 validation, output, files, emitted, browser>>

\* decrypt_credentials lines 256-262: the card fields printed to the console
decrypt_prints(c) ==
  { Emit("console", "PAN", c.pan), Emit("console", "CVV", c.cvv),
    Emit("console", "EXP", c.exp_month), Emit("console", "EXP", c.exp_year),
    Emit("console", "NAME", c.cardholder_name) }

\* what one iteration of the polling loop that goes on to the sleep has met:
\* an intent still pending; a credentials response with a status other than
\* 200 or 202, which get_intent_credentials logs and turns into None
\* (paytato.py lines 226-228), before a pending status; a status response
\* other than 200, which get_intent_status raises (lines 199-205); ready
\* credentials whose decryption raises (the ValueError of lines 234-235 when
\* the private key is not set, or a failure of the box)
PollOutcomes ==
  {"pending", "credentials_non2xx", "status_non2xx", "decrypt_failed"}

\* an iteration that takes no time
after_sleep_clock_stopped(waited, latency) == waited

\* wait_for_approval lines 302-325: the clock after an iteration whose two
\* requests took latency seconds in all and that ended with the sleep
after_sleep(waited, latency) == waited + latency + POLL_INTERVAL

\* wait_for_approval lines 322-323: the exception is logged as a warning
ERROR_POLLING == Emit("log", "Error polling intent credentials", "exception")

\* the records logged by an iteration that goes on to the sleep
poll_logs(o) ==
  CASE o = "pending" -> {}
    [] o = "credentials_non2xx" -> {Non2xx("Paytato get credentials failed")}
    [] o = "status_non2xx" -> {Non2xx("Paytato get intent failed"), ERROR_POLLING}
    [] o = "decrypt_failed" -> {ERROR_POLLING}

\* wait_for_approval lines 302-325: one iteration of the polling loop.  Ready
\* credentials are decrypted, which needs the private key, and returned;
\* ready credentials without the encrypted part and an intent that was
\* rejected, cancelled, failed or has expired return None; a pending intent
\* and any exception (a failed request, a failed decryption) are followed by
\* the sleep and the next iteration.
PollCredentials ==
  /\ pc = "run_poll"
  /\ elapsed < TIMEOUT
  /\ \/ \E c \in Cards :
          /\ args.private_key
          /\ payment_method' = Some(c)
          /\ emitted' = emitted \cup decrypt_prints(c)
          /\ intent' = [intent EXCEPT !.approval = "ready"]
          /\ pc' = "run_received"
          /\ UNCHANGED elapsed
     \/ /\ emitted' = emitted \cup
             {Emit("log", "Credentials response missing", "encryptedPaymentMethod")}
        /\ intent' = [intent EXCEPT !.approval = "missing"]
        /\ pc' = "run_received"
        /\ UNCHANGED <<payment_method, elapsed>>
     \/ /\ emitted' = emitted \cup {Emit("log", "Intent", "rejected")}
        /\ intent' = [intent EXCEPT !.approval = "rejected"]
        /\ pc' = "run_received"
        /\ UNCHANGED <<payment_method, elapsed>>
     \/ \E latency \in {0, 2 * HTTP_TIMEOUT}, o \in PollOutcomes :
          /\ elapsed' = after_sleep(elapsed, latency)
          /\ emitted' = emitted \cup poll_logs(o)
          /\ UNCHANGED <<pc, payment_method, intent>>
  /\ UNCHANGED <<plan, cart, cart2, llm, result, flags, shopVars, args, events,
                 validation, output, files, browser>>

\* the timeout turned into an exception of wait_for_approval
PollTimeout_raises ==
  /\ pc = "run_poll"
  /\ elapsed >= TIMEOUT
  /\ emitted' = emitted \cup {Emit("log", "Timed out waiting for approval", "150s")}
  /\ intent' = [intent EXCEPT !.approval = "timeout"]
  /\ Raise("TimeoutError")
  /\ UNCHANGED <<plan, cart, cart2, llm, flags, shopVars, args, events,
                 payment_method, validation, output, files, browser, elapsed>>

\* wait_for_approval lines 302 and 327-328: the loop ends when the timeout has
\* elapsed, and None is returned
PollTimeout ==
  /\ pc = "run_poll"
  /\ elapsed >= TIMEOUT
  /\ emitted' = emitted \cup {Emit("log", "Timed out waiting for approval", "150s")}
  /\ intent' = [intent EXCEPT !.approval = "timeout"]
  /\ pc' = "run_received"
  /\ UNCHANGED <<plan, cart, cart2, llm, result, flags, shopVars, args, events,
                 payment_method, validation, output, files, browser, elapsed>>

\* run_agent lines 227-233 and 279-280: with a payment method the cardholder
\* name is logged and the payment steps begin; without one they are skipped.
\* wait_for_approval has returned, and its clock is gone with it.
ReceivePaymentMethod ==
  /\ pc = "run_received"
  /\ IF payment_method # None
       THEN /\ emitted' = emitted \cup
                 {Emit("log", "Agent successfully received payment data for",
                       payment_method[1].cardholder_name)}
            /\ pc' = "run_checkout"
       ELSE /\ emitted' = emitted \cup
                 {Emit("log", "Approval not received or timed out", "Shutting down")}
            /\ pc' = "run_close"
  /\ elapsed' = 0
  /\ UNCHANGED <<plan, cart, cart2, llm, result, flags, shopVars, args, events,
                 payment_method, validation, output, intent, files, browser>>

\* the assignment of lines 240, 269 and 276 left out: the card stays referenced
wipe_keeps(pm) == pm

\* run_agent lines 240, 269 and 276: payment_method = None
wipe(pm) == None

\* PaymentResult as returned by complete_purchase
PaymentResult(success) == [success |-> success]

BoolText(b) == IF b THEN "true" ELSE "false"

\* the form filled although the checkout page was not reached
ProceedToCheckout_result_ignored ==
  /\ pc = "run_checkout"
  /\ \E r \in {"true", "false", "raised"} :
       /\ events' = Append(events, Call("proceed_to_checkout", 0, payment_method, r))
       /\ pc' = IF r = "raised" THEN "run_except" ELSE "run_fill"
  /\ UNCHANGED <<plan, cart, cart2, llm, result, flags, shopVars, args,
                 payment_method, validation, output, intent, files, emitted,
                 browser, elapsed>>

\* run_agent line 236: proceed_to_checkout returns true or false, or raises
ProceedToCheckout ==
  /\ pc = "run_checkout"
  /\ \E r \in {"true", "false", "raised"} :
       /\ events' = Append(events, Call("proceed_to_checkout", 0, payment_method, r))
       /\ pc' = CASE r = "true" -> "run_fill"
                  [] r = "false" -> "run_report_checkout"
                  [] r = "raised" -> "run_except"
  /\ UNCHANGED <<plan, cart, cart2, llm, result, flags, shopVars, args,
                 payment_method, validation, output, intent, files, emitted,
                 browser, elapsed>>

\* run_agent lines 238-240 and 268-270: fill_payment_form is given the card;
\* when it returns, true or false, the reference is dropped; when it raises,
\* the handler is entered
FillPaymentForm ==
  /\ pc = "run_fill"
  /\ \E r \in {"true", "false", "raised"} :
       /\ events' = Append(events, Call("fill_payment_form", 0, payment_method, r))
       /\ pc' = CASE r = "true" -> "run_purchase"
                  [] r = "false" -> "run_report_fill"
                  [] r = "raised" -> "run_except"
       /\ payment_method' = IF r = "raised" THEN payment_method
                             ELSE wipe(payment_method)
  /\ UNCHANGED <<plan, cart, cart2, llm, result, flags, shopVars, args,
                 validation, output, intent, files, emitted, browser, elapsed>>

\* run_agent lines 245-249: complete_purchase returns a PaymentResult, which
\* is stored in the cart, or raises
CompletePurchase ==
  /\ pc = "run_purchase"
  /\ \/ \E ok \in BOOLEAN :
          /\ events' = Append(events, Call("complete_purchase", 0, payment_method,
                                           BoolText(ok)))
          /\ cart' = [cart EXCEPT !.payment_result = Some(PaymentResult(ok))]
          /\ pc' = "run_report_purchase"
     \/ /\ events' = Append(events, Call("complete_purchase", 0, payment_method,
                                          "raised"))
        /\ pc' = "run_except"
        /\ UNCHANGED cart
  /\ UNCHANGED <<plan, cart2, llm, result, flags, shopVars, args,
                 payment_method, validation, output, intent, files, emitted,
                 browser, elapsed>>

\* every report carrying success true
report_success_always_true(at, c) == "true"

\* the metadata success of the complete_intent call of lines 262, 271 and 274
report_success(at, c) ==
  IF at = "run_report_purchase" THEN BoolText(c.payment_result[1].success)
  ELSE "false"

\* run_agent lines 256-262, 271 and 274: complete_intent reports the outcome;
\* it raises on a status other than 200, inside the try block
CompleteIntent ==
  /\ pc \in {"run_report_checkout", "run_report_fill", "run_report_purchase"}
  /\ events' = Append(events, Call("complete_intent", 0, payment_method,
                                   report_success(pc, cart)))
  /\ \/ pc' = "run_close" /\ UNCHANGED emitted
     \/ /\ pc' = "run_except"
        /\ emitted' = emitted \cup {Non2xx("Paytato complete intent failed")}
  /\ UNCHANGED <<plan, cart, cart2, llm, result, flags, shopVars, args,
                 payment_method, validation, output, intent, files, browser,
                 elapsed>>

\* run_agent line 277: the handler logs the error
UNEXPECTED_ERROR == Emit("log", "Unexpected error during payment", "exception")

\* run_agent lines 275-278: the handler drops the card, logs the error and
\* calls complete_intent with success false; an exception of that call leaves
\* run_agent
HandlePaymentError ==
  /\ pc = "run_except"
  /\ payment_method' = wipe(payment_method)
  /\ events' = Append(events, Call("complete_intent", 0, payment_method', "false"))
  /\ \/ /\ pc' = "run_close"
        /\ emitted' = emitted \cup {UNEXPECTED_ERROR}
        /\ UNCHANGED result
     \/ /\ Raise("HTTPStatusError")
        /\ emitted' = emitted \cup {UNEXPECTED_ERROR, Non2xx("Paytato complete intent failed")}
  /\ UNCHANGED <<plan, cart, cart2, llm, flags, shopVars, args, validation,
                 output, intent, files, browser, elapsed>>

\* run_agent lines 286-288: the browser is closed and the output returned
CloseBrowser ==
  /\ pc = "run_close"
  /\ events' = Append(events, Call("close_browser", 0, payment_method, "-"))
  /\ browser' = "closed"
  /\ pc' = "returned"
  /\ result' = [status |-> "returned"]
  /\ UNCHANGED <<plan, cart, cart2, llm, flags, shopVars, args, payment_method,
                 validation, output, intent, files, emitted, elapsed>>

NextRun ==
  \/ StartRun
  \/ CreateShoppingPlan
  \/ ShopOpen
  \/ RunAddItemToCart
  \/ RunExtractCartState
  \/ SaveCart
  \/ ValidateCart
  \/ BuildAgentOutput
  \/ SubmitIntent
  \/ WaitForApproval
  \/ PollCredentials
  \/ PollTimeout
  \/ ReceivePaymentMethod
  \/ ProceedToCheckout
  \/ FillPaymentForm
  \/ CompletePurchase
  \/ CompleteIntent
  \/ HandlePaymentError
  \/ CloseBrowser

SpecRun == InitRun /\ [][NextRun]_vars

\* the event loop runs the coroutine on: every request ends, with an answer or
\* after the client's timeout, and every sleep ends
SpecRunFair == SpecRun /\ WF_vars(NextRun)

\* ------------------------------------------- the order of a run's stages
\* the positions in the run's calls at which name was called
Positions(name) == {k \in 1..Len(events) : events[k].call = name}

\* the positions of the calls made for plan items
ItemPositions ==
  {k \in 1..Len(events) :
     events[k].call \in {"find_product", "no_match_warning", "click_add"}}

Once(name) == Cardinality(Positions(name)) = 1

AtMostOnce(name) == Cardinality(Positions(name)) <= 1

\* every call of name comes after a call of earlier
OnlyAfter(name, earlier) ==
  \A k \in Positions(name) : \E l \in Positions(earlier) : l < k

\* the plan items are matched one after the other in plan order, each once,
\* and every call for an item comes before the matching of the next item
ItemsInPlanOrder ==
  /\ \A k, l \in ItemPositions : k < l => events[k].item <= events[l].item
  /\ \A k \in Positions("find_product") :
       /\ events[k].item = Cardinality({l \in Positions("find_product") : l <= k})
       /\ \A l \in ItemPositions : l < k => events[l].item < events[k].item
  /\ \A k \in ItemPositions :
       \E l \in Positions("find_product") :
         l <= k /\ events[l].item = events[k].item

\* the extraction completion comes after every plan item was processed and
\* after every call made for an item
ExtractionAfterItems ==
  \A k \in Positions("cart_extraction") :
    /\ Cardinality(Positions("find_product")) = Len(plan.items)
    /\ \A l \in ItemPositions : l < k

\* C11: plan items are matched and added in plan order, all add-to-cart calls
\* of item i before the matching of item i+1; the cart-extraction completion
\* is requested at most once and only after the last item was processed, the
\* fingerprint is computed at most once and only after extraction, validation
\* is called at most once and only after the fingerprint was computed; and in
\* a run that returns each of the three has happened exactly once.
C11_StageOrder ==
  /\ ItemsInPlanOrder
  /\ ExtractionAfterItems
  /\ AtMostOnce("cart_extraction")
  /\ AtMostOnce("compute_fingerprint")
  /\ AtMostOnce("validate_cart")
  /\ OnlyAfter("compute_fingerprint", "cart_extraction")
  /\ OnlyAfter("validate_cart", "compute_fingerprint")
  /\ Positions("validate_cart") # {}
       => cart.cart_fingerprint_sha256 = compute_fingerprint(cart)
  /\ pc = "returned"
       => /\ Once("cart_extraction")
          /\ Once("compute_fingerprint")
          /\ Once("validate_cart")

\* a returned run in which both items of a two-item plan were added
C11_Witness ==
  /\ pc = "returned"
  /\ Len(plan.items) = 2
  /\ \E a, b \in Positions("click_add") :
       a < b /\ events[a].item = 1 /\ events[b].item = 2
  /\ Once("validate_cart")

\* shop() is in its loop over the plan or was left by an exception of it, and
\* the find_product completion of the item processed last reports no match
LastNoMatch ==
  /\ pc \in {"run_shop", "raised"}
  /\ Positions("cart_extraction") = {}
  /\ last # Idle
  /\ llm # Idle
  /\ llm.t = "dict"
  /\ ~Truthy(Get(llm, "found", JBool(FALSE)))

\* the calls made for plan item j are the matching followed by the no-match
\* warning or by one add-to-cart call per unit
ItemMatchedAndAdded(j) ==
  /\ Cardinality({k \in Positions("find_product") : events[k].item = j}) = 1
  /\ \/ \E k \in Positions("no_match_warning") : events[k].item = j
     \/ Cardinality({k \in Positions("click_add") : events[k].item = j})
          = plan.items[j].quantity

\* C12: a plan item without a catalog match does not abort shopping: the
\* miss raises nothing and leaves shop() at the next plan item, and once
\* shop() has gone through the plan every item after the missed one was
\* matched and, when found, added, and the cart was extracted.
C12_MissContinues ==
  /\ LastNoMatch
       => /\ pc = "run_shop"
          /\ last.status = "no_match"
          /\ item_i = last.item
          /\ events[Len(events)] = Call("no_match_warning", last.item, None, "-")
  /\ \A k \in Positions("no_match_warning") :
       /\ browser = "open" /\ pc \notin {"run_shop", "raised"}
            => /\ \A j \in (events[k].item + 1)..Len(plan.items) :
                    ItemMatchedAndAdded(j)
               /\ \E l \in Positions("cart_extraction") : k < l
       /\ \A l \in Positions("find_product") :
            events[l].item > events[k].item => k < l

\* item 1 has no match, item 2 is added afterwards and the cart is extracted
C12_Witness ==
  /\ \E k \in Positions("no_match_warning") : events[k].item = 1
  /\ \E k \in Positions("click_add") : events[k].item = 2
  /\ Once("cart_extraction")
  /\ pc = "run_cart"

\* --------------------------------------------- the payment steps of a run
PaymentSteps == {"proceed_to_checkout", "fill_payment_form", "complete_purchase"}

ApprovalTimedOut == intent # Idle /\ intent.approval = "timeout"

C14_CardDroppedAfterFill ==
  /\ \A k \in Positions("fill_payment_form") :
       /\ events[k].holds_card
       /\ \A l \in (k + 1)..Len(events) : ~events[l].holds_card
  /\ pc \in {"run_purchase", "run_report_fill", "run_report_purchase"}
       => payment_method = None

\* the form fill raised and the failure was reported without the card
C14_Witness ==
  \E k \in Positions("fill_payment_form") :
    /\ events[k].success = "raised"
    /\ k + 1 \in Positions("complete_intent")
    /\ ~events[k + 1].holds_card
    /\ payment_method = None

\* C15: no field of the plaintext payment credentials (card number, CVV,
\* expiry, cardholder name) is written to an output file, a log record or the
\* console, so what the run emits does not depend on the credential values.
C15_NoCredentialEmitted ==
  /\ \A e \in emitted : e.arg \notin CardFields
  /\ (files # Idle /\ files.cart # None) => files.cart[1].payment_method = None

\* C16: the cart's payment_method is null in every state of a run, and so it
\* is in the persisted cart.json and agent_output.json, also when credentials
\* were obtained and used.
C16_CartPaymentMethodNull ==
  /\ cart # Idle => cart.payment_method = None
  /\ (files # Idle /\ files.cart # None)
       => files.cart[1].payment_method = None
  /\ (files # Idle /\ files.agent_output # None)
       => files.agent_output[1].cart.payment_method = None

\* credentials were obtained and used for a purchase whose result is in the cart
C16_Witness ==
  /\ pc = "returned"
  /\ intent # Idle
  /\ intent.approval = "ready"
  /\ \E k \in Positions("fill_payment_form") : events[k].success = "true"
  /\ cart.payment_result = Some(PaymentResult(TRUE))
  /\ files.agent_output # None

\* C17: the output's success is true exactly when the validation decision is
\* not REJECT, from the moment the output is built until run_agent returns,
\* whatever the payment steps did.
C17_SuccessIsValidation ==
  output # Idle
    => /\ validation # Idle
       /\ output.success <=> (validation.decision # "REJECT")
       /\ files.agent_output[1].success = output.success

\* the purchase failed and the returned output still says success
C17_Witness ==
  /\ pc = "returned"
  /\ validation.decision = "ALLOW_WITH_FLAGS"
  /\ cart.payment_result = Some(PaymentResult(FALSE))
  /\ output.success

\* a payment step returned failure or raised
PaymentStepFailed ==
  \E k \in 1..Len(events) :
    events[k].call \in PaymentSteps /\ events[k].success \in {"false", "raised"}

\* every failed payment step is followed by a complete_intent call that
\* carries success false
FailureReported ==
  \A k \in 1..Len(events) :
    (events[k].call \in PaymentSteps /\ events[k].success \in {"false", "raised"})
      => \E l \in Positions("complete_intent") : k < l /\ events[l].success = "false"

\* the payment block is over: run_agent is about to close the browser, has
\* returned, or was left by an exception
PaymentBlockOver == pc \in {"run_close", "returned", "raised"}

ItemJustProcessed ==
  /\ last # Idle
  /\ result = Idle \/ result.status = last.status

\* the find_product completion is not a mapping, lacks found or product_index,
\* or has a product_index that is not an integer
FindMalformed ==
  \/ llm.t # "dict"
  \/ "found" \notin DOMAIN llm.d
  \/ "product_index" \notin DOMAIN llm.d
  \/ llm.d["product_index"].t # "int"

\* C19: whatever decoded JSON value the find_product completion is (not a
\* mapping, a mapping with missing fields, a product_index that is not an
\* integer), processing the plan item does not raise: the response is treated
\* as an empty match and shopping continues with the next plan item.
C19_FindResponseAbsorbed ==
  ItemJustProcessed =>
    /\ last.status \in {"added", "no_match"}
    /\ pc = "shop"
    /\ FindMalformed => last.status = "no_match" /\ last.attempts = <<>>

\* C20: whatever decoded JSON value the validator completion is, also a
\* mapping whose flags or reasoning is present but null or of the wrong type,
\* the normalization returns a ValidationResult with one of the three
\* decisions and does not raise.
C20_ValidatorAbsorbs ==
  pc = "pv_done" =>
    /\ result.status = "returned"
    /\ result.decision \in {"ALLOW", "ALLOW_WITH_FLAGS", "REJECT"}

\* ------------------------------------------------ transport and configuration
\* some response with a status other than 200 has been logged
Non2xxLogged == \E e \in emitted : e.arg = "status 500"

\* the run has been left by an HTTPStatusError
AbortedByHTTPStatusError ==
  pc = "raised" /\ result.status = "HTTPStatusError"

\* C21: every non-2xx response of the LLM endpoint or of an approval-service
\* call (start run, submit intent, get intent status, get credentials,
\* complete intent) is raised to the orchestrator and aborts the run; none is
\* swallowed or turned into a normal value.  Violated: a failed credentials
\* request is turned into None, a failed status request is caught by the
\* polling loop, a failed complete_intent inside the payment block is caught
\* by its handler.
C21_Non2xxAborts == Non2xxLogged => AbortedByHTTPStatusError

\* a key the run needs is missing: the Keywords API key, or the private key
\* when the approval service is to deliver encrypted credentials
RequiredKeyMissing ==
  \/ ~args.api_key
  \/ args.paytato /\ ~args.private_key /\ args.mock_payload = None

\* C22: with a required API key or credential missing, the run aborts with an
\* error before any network request or browser action.  Violated: the private
\* key is looked at only when credentials are decrypted, after the run was
\* started, the store visited and the intent submitted.
C22_MissingKeyAbortsFirst ==
  RequiredKeyMissing =>
    /\ pc \in {"run_start", "raised"}
    /\ events = <<>>
    /\ browser = "none"
    /\ pc = "raised" => result.status = "ValueError"

\* ------------------------------------------------------- the files of a run
\* the stage whose call is name has begun
Begun(name) == Positions(name) # {}

\* C23: each stage's result is on disk before the next stage begins:
\* shopping_plan.json before shopping, cart.json before validation,
\* validation.json and agent_output.json before an intent is submitted; a run
\* that fails in a stage has the files of the stages completed before it.
C23_FilesBeforeNextStage ==
  /\ Begun("open_store") => files.shopping_plan = Some(plan)
  /\ Begun("validate_cart") =>
       /\ files.cart # None
       /\ files.cart[1] = [cart EXCEPT !.payment_result = None]
  /\ Begun("submit_intent") =>
       /\ files.validation = Some(validation)
       /\ files.agent_output # None
       /\ files.agent_output[1].validation = validation
       /\ files.agent_output[1].success = output.success

\* a run that failed in the validation stage, with the plan and the cart of
\* the stages before it on disk
C23_Witness ==
  /\ pc = "raised"
  /\ Begun("validate_cart")
  /\ files.shopping_plan = Some(plan)
  /\ files.cart # None
  /\ files.validation = None


\* --------------------------------------------- the items of an extracted cart
\* the items list the extraction works on
ExItemsData ==
  LET got == Get(normalize_cart_data(llm), "items", JList(<<>>))
  IN IF got.t # "list" THEN <<>> ELSE got.l

\* the totals of the response can be built
ExTotalsUsable == build_totals(normalize_cart_data(llm)).status = "ok"

\* every element of the items list is a mapping
ExItemsAreMappings == \A i \in 1..Len(ExItemsData) : ExItemsData[i].t = "dict"

\* the field is missing, null or of a type its cart field cannot take
FieldUnusable(e, key, type) == Get(e, key, JNull).t # type

\* C24: for every element of the extracted items list, building the cart
\* item does not fail whatever fields are absent or null: title becomes
\* "Unknown Item", price_cents 0 and quantity 1 when the field is missing or
\* unusable.  Violated: a null title and a price or quantity that is no number
\* raise a validation error.
C24_ItemDefaults ==
  (pc = "ex_done" /\ ExTotalsUsable /\ ExItemsAreMappings) =>
    /\ result.status = "returned"
    /\ Len(cart.items) = Len(ExItemsData)
    /\ \A i \in 1..Len(ExItemsData) :
         /\ FieldUnusable(ExItemsData[i], "title", "str")
              => cart.items[i].title = "Unknown Item"
         /\ FieldUnusable(ExItemsData[i], "price_cents", "int")
              => cart.items[i].price_cents = 0
         /\ FieldUnusable(ExItemsData[i], "quantity", "int")
              => cart.items[i].quantity = 1

\* C25: in the extracted cart the i-th item's plan_item_id is the id of the
\* i-th plan item for every position below the number of plan items and null
\* at and beyond it, and the cart items are in the order of the extracted list.
C25_PlanItemIdByPosition ==
  (pc = "ex_done" /\ result.status = "returned") =>
    /\ Len(cart.items) = Len(ExItemsData)
    /\ \A i \in 1..Len(cart.items) :
         /\ i <= Len(plan.items)
              => cart.items[i].plan_item_id = Some(plan.items[i].id)
         /\ i > Len(plan.items) => cart.items[i].plan_item_id = None
         /\ cart.items[i].title =
              Get(ExItemsData[i], "title", JStr("Unknown Item")).s

\* two different items extracted for a plan of one item: the first is linked
\* to the plan item, the second to none
C25_Witness ==
  /\ pc = "ex_done"
  /\ result.status = "returned"
  /\ Len(plan.items) = 1
  /\ Len(cart.items) = 2
  /\ cart.items[1].title # cart.items[2].title
  /\ cart.items[1].plan_item_id = Some(plan.items[1].id)
  /\ cart.items[2].plan_item_id = None

\* C29: every CartJson produced by cart extraction has non-negative
\* subtotal_cents and total_cents, non-negative tax_cents and shipping_cents
\* when present, and for every item price_cents >= 0 and quantity >= 1.
\* Violated: negative numbers of the response are taken as they are.
C29_CartNumbersInRange ==
  (pc = "ex_done" /\ result.status = "returned") =>
    /\ cart.totals.subtotal_cents >= 0
    /\ cart.totals.total_cents >= 0
    /\ cart.totals.tax_cents # None => cart.totals.tax_cents[1] >= 0
    /\ cart.totals.shipping_cents # None => cart.totals.shipping_cents[1] >= 0
    /\ \A i \in 1..Len(cart.items) :
         /\ cart.items[i].price_cents >= 0
         /\ cart.items[i].quantity >= 1


\* ------------------------------------------- quick_validate: the item counts
HasFlag(f) == f \in Range(result.flags)

\* C26: for a merchant that is not blocked, the flags of quick_validate hold
\* item_missing exactly when the cart has fewer items than the plan, hold
\* unexpected_item exactly when it has more, and hold neither when the counts
\* are equal.  Violated: with a budget of 0 and a positive total the budget
\* check raises before the counts are compared.
C26_CountFlags ==
  (pc = "qv_done" /\ ~MerchantBlocked) =>
    /\ result.status = "returned"
    /\ HasFlag(ITEM_MISSING) <=> Len(cart.items) < Len(plan.items)
    /\ HasFlag(UNEXPECTED_ITEM) <=> Len(cart.items) > Len(plan.items)

\* ------------------------------------------------------ the effective budget
\* the over-budget flag is among the returned flags
OverBudgetFlagged ==
  \E i \in 1..Len(result.flags) : IsOverBudgetFlag(result.flags[i])

PLAN_DEFAULT_MAX_TOTAL_CENTS == 100000

\* ids given to plans and items that come without one (uuid4)
GeneratedPlanId == "plan"
GeneratedItemIds == <<"p1", "p2", "p3", "p4">>

\* lines 46-50 and the validation of the budget field: a missing or null
\* budget and a missing or null max_total_cents get the default; any other
\* integer is kept as it is
plan_budget(plan_data) ==
  LET b == Get(plan_data, "budget", JNull)
  IN IF b.t = "null" THEN [status |-> "ok", budget |-> Budget(Some(PLAN_DEFAULT_MAX_TOTAL_CENTS))]
     ELSE IF b.t # "dict" THEN [status |-> "AttributeError"]
     ELSE LET m == Get(b, "max_total_cents", JNull)
          IN IF m.t = "null"
               THEN [status |-> "ok", budget |-> Budget(Some(PLAN_DEFAULT_MAX_TOTAL_CENTS))]
             ELSE IF m.t = "int" THEN [status |-> "ok", budget |-> Budget(Some(m.i))]
             ELSE [status |-> "ValidationError"]

\* the validation of one element of items as a ShoppingItem
plan_item(e, i) ==
  IF e.t # "dict" THEN [status |-> "ValidationError"]
  ELSE LET description == Get(e, "description", JNull)
           quantity == Get(e, "quantity", JInt(1))
       IN IF description.t # "str" \/ quantity.t # "int"
            THEN [status |-> "ValidationError"]
            ELSE [status |-> "ok",
                  item |-> ShoppingItem(GeneratedItemIds[i], description.s, quantity.i)]

\* create_shopping_plan lines 45-65 from the decoded intake response on: the
\* ShoppingPlan, or the exception raised
create_shopping_plan(plan_data) ==
  IF plan_data.t # "dict" THEN [status |-> "TypeError"]
  ELSE LET b == plan_budget(plan_data)
           got == Get(plan_data, "items", JNull)
           items_data == IF got.t = "list" THEN got.l ELSE <<>>
           built == [i \in 1..Len(items_data) |-> plan_item(items_data[i], i)]
           plan_id == Get(plan_data, "plan_id", JStr(GeneratedPlanId))
       IN IF b.status # "ok" THEN [status |-> b.status]
          ELSE IF got.t # "list" \/ plan_id.t # "str"
                  \/ \E i \in 1..Len(built) : built[i].status # "ok"
            THEN [status |-> "ValidationError"]
          ELSE [status |-> "returned",
                plan |-> ShoppingPlan(plan_id.s, [i \in 1..Len(built) |-> built[i].item],
                                      b.budget, <<>>)]

\* --------------------------------------------------- intake responses
PlanMaxFields == { Absent, JNull, JInt(0), JInt(-200), JInt(1), JInt(5000),
                   JInt(100000), JStr("abc") }

PlanBudgetFields ==
  { Absent, JNull, JStr("none") }
  \cup { DictOf({"max_total_cents"}, [max_total_cents |-> m]) : m \in PlanMaxFields }

PlanElems == { JDict([description |-> JStr("mouse")]),
               JDict([description |-> JStr("hub"), quantity |-> JInt(2)]),
               JDict([quantity |-> JInt(1)]) }

PlanItemsFields == { Absent, JNull } \cup { JList(l) : l \in SeqsUpTo(PlanElems, MaxPlanItems) }

PlanResponses ==
  { JNull, JList(<<>>) }
  \cup { DictOf({"plan_id", "items", "budget"},
                [plan_id |-> id, items |-> it, budget |-> b]) :
           id \in {Absent, JStr("plan-7")}, it \in PlanItemsFields,
           b \in PlanBudgetFields }

InitPlan ==
  /\ pc = "intake"
  /\ plan = Idle
  /\ cart = Idle
  /\ cart2 = Idle
  /\ llm \in PlanResponses
  /\ result = Idle
  /\ flags = Idle
  /\ NoShop
  /\ NoRun

\* create_shopping_plan once the intake completion has returned llm
PlanFromIntake ==
  /\ pc = "intake"
  /\ pc' = "intake_done"
  /\ LET r == create_shopping_plan(llm)
     IN /\ result' = [status |-> r.status]
        /\ plan' = IF r.status = "returned" THEN r.plan ELSE plan
  /\ UNCHANGED <<cart, cart2, llm, flags, shopVars, runVars>>

NextPlan == PlanFromIntake

SpecPlan == InitPlan /\ [][NextPlan]_vars

\* C28: for every Budget that can be constructed, one built from an LLM plan
\* with max_total_cents 0 or negative included, effective_max_total_cents is
\* a positive integer.  Violated: only a missing or null limit is replaced;
\* 0 and negative limits are kept.
C28_EffectiveBudgetPositive ==
  (pc = "intake_done" /\ result.status = "returned") =>
    effective_max_total_cents(plan.budget) > 0


\* ------------------------------------------- what the fingerprint depends on
\* the carts differ in merchant_origin and in no other hashed field
OnlyOriginDiffers(a, b) ==
  /\ a.merchant_origin # b.merchant_origin
  /\ FpTuples(a) = FpTuples(b)
  /\ a.totals.total_cents = b.totals.total_cents

\* the carts differ in the price_cents of one item and in no other hashed field
OnlyOnePriceDiffers(a, b) ==
  /\ a.merchant_origin = b.merchant_origin
  /\ a.totals.total_cents = b.totals.total_cents
  /\ Len(a.items) = Len(b.items)
  /\ \E i \in 1..Len(a.items) :
       /\ a.items[i].price_cents # b.items[i].price_cents
       /\ a.items[i].title = b.items[i].title
       /\ a.items[i].quantity = b.items[i].quantity
       /\ \A j \in (1..Len(a.items)) \ {i} : FpTuples(a)[j] = FpTuples(b)[j]

\* the carts differ in totals.total_cents and in no other hashed field
OnlyTotalDiffers(a, b) ==
  /\ a.merchant_origin = b.merchant_origin
  /\ FpTuples(a) = FpTuples(b)
  /\ a.totals.total_cents # b.totals.total_cents

\* C30: changing exactly one of a cart's merchant_origin, one item's
\* price_cents, or totals.total_cents changes the canonical content that
\* compute_fingerprint hashes, and therefore the fingerprint.
C30_FingerprintSensitive ==
  (/\ BothFingerprinted
   /\ \/ OnlyOriginDiffers(cart, cart2)
      \/ OnlyOnePriceDiffers(cart, cart2)
      \/ OnlyTotalDiffers(cart, cart2))
    => /\ canonical(cart) # canonical(cart2)
       /\ cart.cart_fingerprint_sha256 # cart2.cart_fingerprint_sha256

\* two fingerprinted carts of two items that differ only in the price of the
\* second item
C30_Witness ==
  /\ BothFingerprinted
  /\ OnlyOnePriceDiffers(cart, cart2)
  /\ Len(cart.items) = 2
  /\ cart.items[1] = cart2.items[1]
  /\ cart.items[2].price_cents # cart2.items[2].price_cents
  /\ cart.cart_id = cart2.cart_id
  /\ cart.cart_fingerprint_sha256 # cart2.cart_fingerprint_sha256


\* ------------------------------------------------------ the submitted intent
\* an intent has been submitted and answered
IntentSubmitted == intent # Idle

\* C31: the payload submitted to the approval service carries the cart's
\* cart_fingerprint_sha256 as its idempotency key, so that carts with equal
\* fingerprints present the same key.  Violated: the key is a fresh
\* "intent_<uuid>" and the fingerprint is no part of the payload.
C31_KeyIsFingerprint ==
  IntentSubmitted => intent.payload.intent_id = cart.cart_fingerprint_sha256

\* the response to submit_intent carried no intentId
IntentIdMissing == intent # Idle /\ intent.intent_id = ""

ValidationRejected == validation # Idle /\ validation.decision = "REJECT"

\* C34: when the validation decision is REJECT, run_agent never calls
\* submit_intent, never polls for credentials, and never performs checkout
\* navigation, form fill or purchase submission.
C34_RejectStopsPayment ==
  ValidationRejected =>
    /\ intent = Idle
    /\ payment_method = None
    /\ \A k \in 1..Len(events) :
         events[k].call \notin
           PaymentSteps \cup {"submit_intent", "wait_for_approval", "complete_intent"}

\* a run with an approval client and a mock payload that returned after a
\* REJECT, the browser closed
C34_Witness ==
  /\ ValidationRejected
  /\ pc = "returned"
  /\ args.paytato
  /\ args.mock_payload # None
  /\ browser = "closed"

\* the call at position k was made and returned true
ReturnedTrue(name, k) == k \in Positions(name) /\ events[k].success = "true"

C36_CompleteIntentOnce == AtMostOnce("complete_intent")

\* C37: on every path on which run_agent returns after shop() has opened the
\* browser, the browser has been closed before the return.  Violated: the
\* return for a response without intentId leaves the browser open.
C37_BrowserClosedOnReturn ==
  (pc = "returned" /\ Begun("open_store")) =>
    /\ browser = "closed"
    /\ Once("close_browser")

\* credentials were obtained in this run
CredentialsObtained == intent # Idle /\ intent.approval \in {"ready", "mock"}

\* C38: in every run in which credentials were obtained, payment_method is
\* None at every call of complete_intent and when run_agent returns, on every
\* branch.  Violated: the branch for a failed checkout navigation reports and
\* returns with the card still referenced.
C38_CardDroppedBeforeReport ==
  CredentialsObtained =>
    /\ \A k \in Positions("complete_intent") : ~events[k].holds_card
    /\ pc = "returned" => payment_method = None


\* ------------------------------------- shopper.py: parsing the catalog page
MaxLines == 4

\* str.strip() for a text whose only whitespace is the blank
RECURSIVE strip(_)
strip(text) ==
  IF text = <<>> THEN text
  ELSE IF Head(text) = " " THEN strip(Tail(text))
  ELSE IF text[Len(text)] = " " THEN strip(SubSeq(text, 1, Len(text) - 1))
  ELSE text

DOLLAR == <<"$">>

\* lines[i] of the Python list, i counted from 0
LineAt(ls, i) == ls[i + 1]

\* a price line taken as a record whatever stands two lines above it
product_at_any_name(ls, i) ==
  IF i >= 2
    THEN << Product(strip(LineAt(ls, i - 2)), strip(LineAt(ls, i - 1)),
                    strip(LineAt(ls, i)),
                    IF i >= 3 THEN strip(LineAt(ls, i - 3)) ELSE <<>>) >>
    ELSE <<>>

\* lines 184-198 for a price line at index i: the record appended, if any
product_at(ls, i) ==
  IF i >= 2
    THEN LET name == strip(LineAt(ls, i - 2))
             description == strip(LineAt(ls, i - 1))
             category == IF i >= 3 THEN strip(LineAt(ls, i - 3)) ELSE <<>>
         IN IF name # <<>> /\ ~StartsWith(name, DOLLAR)
              THEN << Product(name, description, strip(LineAt(ls, i)), category) >>
              ELSE <<>>
    ELSE <<>>

\* the while loop of lines 180-199 from index i on
RECURSIVE parse_from(_, _, _)
parse_from(ls, i, found) ==
  IF i >= Len(ls) THEN found
  ELSE IF StartsWith(strip(LineAt(ls, i)), DOLLAR)
         THEN parse_from(ls, i + 1, found \o product_at(ls, i))
  ELSE parse_from(ls, i + 1, found)

\* _parse_products_from_lines
parse_products_from_lines(ls) == parse_from(ls, 0, <<>>)

\* lines of a page text: names, a padded name, prices, a padded price, an
\* empty line and a line of blanks
CatLines ==
  { <<"M">>, <<" ", "H", " ">>, <<"$", "5">>, <<" ", "$", "9", " ">>,
    <<>>, <<" ">> }

InitCat ==
  /\ pc = "cat"
  /\ plan = Idle
  /\ cart = Idle
  /\ cart2 = Idle
  /\ llm = Idle
  /\ result = Idle
  /\ flags = Idle
  /\ lines \in SeqsUpTo(CatLines, MaxLines)
  /\ products = Idle
  /\ n_buttons = 0
  /\ item_i = 0
  /\ last = Idle
  /\ NoRun

\* _extract_products lines 163-165: the page text, split into lines, is parsed
ParseProducts ==
  /\ pc = "cat"
  /\ pc' = "cat_done"
  /\ products' = parse_products_from_lines(lines)
  /\ UNCHANGED <<plan, cart, cart2, llm, result, flags, lines, n_buttons,
                 item_i, last, runVars>>

NextCat == ParseProducts

SpecCat == InitCat /\ [][NextCat]_vars

\* the stripped text of the line at index i
Stripped(i) == strip(LineAt(lines, i))

\* the indexes that anchor a record: a price line at index 2 or beyond whose
\* line two above is neither empty nor a price
CatAnchors ==
  { i \in 2..(Len(lines) - 1) :
      /\ StartsWith(Stripped(i), DOLLAR)
      /\ Stripped(i - 2) # <<>>
      /\ ~StartsWith(Stripped(i - 2), DOLLAR) }

\* the anchor with k - 1 anchors before it
CatAnchor(k) ==
  CHOOSE i \in CatAnchors : Cardinality({j \in CatAnchors : j < i}) = k - 1

\* C33: catalog parsing emits exactly one record for every line index i >= 2
\* whose stripped text starts with "$" and whose line i-2, stripped, is
\* non-empty and does not start with "$", with name = line i-2, description =
\* line i-1, price = line i and category = line i-3 (empty when i < 3), every
\* line taken stripped; it emits no other record and keeps the line order.
C33_CatalogRecords ==
  pc = "cat_done" =>
    /\ Len(products) = Cardinality(CatAnchors)
    /\ \A k \in 1..Len(products) :
         LET i == CatAnchor(k)
         IN /\ products[k].name = Stripped(i - 2)
            /\ products[k].description = Stripped(i - 1)
            /\ products[k].price = Stripped(i)
            /\ products[k].category = IF i >= 3 THEN Stripped(i - 3) ELSE <<>>

\* two price lines in a row after a padded name: the first anchors a record
\* without category, the second is dropped because a price stands two above
C33_Witness ==
  /\ pc = "cat_done"
  /\ Len(lines) = 4
  /\ lines[1] = <<" ", "H", " ">>
  /\ StartsWith(Stripped(2), DOLLAR)
  /\ StartsWith(Stripped(3), DOLLAR)
  /\ Len(products) = 1
  /\ products[1].name = <<"H">>
  /\ products[1].category = <<>>


\* ------------------------------------------------- the wait for an approval
\* the longest one iteration of the polling loop can take: two requests that
\* run into the client's timeout, and the sleep
MaxIteration == 2 * HTTP_TIMEOUT + POLL_INTERVAL

\* one step of wait_for_approval: it does not raise; an iteration that goes
\* on was begun before the timeout and moves the clock on by the poll
\* interval at least; a return hands back a payment method or None, the clock
\* less than one iteration past the timeout
WaitStep ==
  pc = "run_poll" =>
    /\ pc' \in {"run_poll", "run_received"}
    /\ pc' = "run_poll"
         => /\ elapsed < TIMEOUT
            /\ elapsed' >= elapsed + POLL_INTERVAL
    /\ pc' = "run_received"
         => /\ payment_method' = None \/ payment_method'[1] \in Cards
            /\ elapsed' < TIMEOUT + MaxIteration
            /\ elapsed >= TIMEOUT => payment_method' = None

C39_QuickValidateTotal ==
  pc = "qv_done" =>
    /\ result.status = "returned"
    /\ result.decision \in VALID_DECISIONS

====
